---- MODULE Spec2Model ----
(***************************************************************************)
(* CausalGraphSubstrate (src/CAUSAL_GRAPH/causal-graph-substrate.js) as a  *)
(* state machine over the JavaScript event loop.                           *)
(*                                                                         *)
(* Numbers are fixed point in thousandths: 1.0 is One, 0.8 is 800.  A      *)
(* product of a signal and a strength is (signal * strength) \div One.     *)
(*                                                                         *)
(* The event loop: a propagate call runs synchronously up to an await; a   *)
(* call suspended on a microtask (pc "await") is resumed before any timer  *)
(* callback or any other caller code runs; a call suspended on a handler   *)
(* that itself waits for a timer or for I/O (pc "awaitAsync") lets timer   *)
(* callbacks run.  setTimeout callbacks run in order of their due time,    *)
(* and in scheduling order among equal due times.                          *)
(***************************************************************************)
EXTENDS Integers, Sequences, FiniteSets, TLC

VARIABLES
    nodes,             \* this.nodes: id -> [activation, handlers]
    edges,             \* this.edges: sequence (insertion order) of edge records
    nodeGroups,        \* this.nodeGroups: group -> sequence of ids (Set order)
    messageQueue,      \* this.messageQueue
    timers,            \* pending setTimeout callbacks: [due, msg], scheduling order
    observedPatterns,  \* this.observedPatterns: <<from, to>> -> activations seen
    proposedEdges,     \* this.proposedEdges
    evolutionHistory,  \* this.evolutionHistory: ids of the edges added
    calls,             \* the propagate calls made so far, in order: their frames
    bcast,             \* the broadcast call in progress or last finished
    now,               \* Date.now()
    wave,              \* a WaveResonanceCausalGraph: nodes, edges, fieldState,
                       \* time, proposedResonances
    waveCalls,         \* the calls made on the wave graph so far: their frames
    users,             \* TieredCausalGraph.users: userId -> user record
    graceTimers,       \* the pending setTimeout callbacks of handlePayment
    thrown,            \* what the last call on the tiers threw, if it threw
    access,            \* the last canAccessFeature call and what it returned
    activeProvider,    \* AIProviderEngine.activeProvider: its id, or null
    fallbackChain,     \* AIProviderEngine.fallbackChain
    costs,             \* AIProviderEngine.costs: providerId -> totalRequests
    requestHistory,    \* AIProviderEngine.requestHistory: the provider of each entry
    generateCalls      \* the generate calls made so far, in order: their frames

vars == << nodes, edges, nodeGroups, messageQueue, timers, observedPatterns,
           proposedEdges, evolutionHistory, calls, bcast, now,
           wave, waveCalls, users, graceTimers, thrown, access,
           activeProvider, fallbackChain, costs, requestHistory, generateCalls >>

\* the substrate's variables without the clock, and the variables of the wave
\* graph and of the tiers built on it
substrateVars == << nodes, edges, nodeGroups, messageQueue, timers,
                    observedPatterns, proposedEdges, evolutionHistory, calls,
                    bcast >>
waveVars == << wave, waveCalls, users >>
tierVars == << graceTimers, thrown, access >>
engineVars == << activeProvider, fallbackChain, costs, requestHistory,
                generateCalls >>

graphVars == << nodes, edges, nodeGroups >>
learnVars == << observedPatterns, proposedEdges, evolutionHistory >>

(***************************************************************************)
(* Bounds of the model.                                                    *)
(***************************************************************************)
MaxCalls == 3
MaxGatedCalls == 2
MaxFairCalls == 2
MaxClock == 1
MaxApiCalls == 2
MaxEdges == 1
MaxEvolveCalls == 8
MaxObserveCalls == 11
MaxFaultCalls == 3
MaxRegisterCalls == 1
MaxOverlapCalls == 2
MaxWaveCalls == 2
MaxWaveEdges == 1
MaxWaveIndex == 1
MaxTierChanges == 2
MaxLevelCalls == 2
MaxFairWaveCalls == 2
MaxNameChanges == 2
MaxGracePeriods == 2
MaxBillingChanges == 2
MaxGenerateCalls == 2
MaxApprovals == 2

(***************************************************************************)
(* Program constants.                                                      *)
(***************************************************************************)
One == 1000
DefaultStrength == 1000
DefaultDelay == 0
ProposeAfter == 5
ConfidenceDivisor == 10
MinAvgStrength == 300
MinConfidence == 500

(***************************************************************************)
(* Input sets.                                                             *)
(***************************************************************************)
Undefined == "undefined"

\* metadata objects: functions from a set of keys to values
EmptyMeta == [k \in {} |-> Undefined]
PaidMeta == [k \in {"paymentValid"} |-> "true"]
UnpaidMeta == [k \in {"paymentValid"} |-> "false"]

MetaGet(md, k) == IF k \in DOMAIN md THEN md[k] ELSE Undefined

\* { ...md, key: value }
MetaWith(md, key, value) ==
    [k \in (DOMAIN md) \cup {key} |-> IF k = key THEN value ELSE md[k]]

\* edge.conditions: null, an object of key/value pairs, or a function
NoConditions == [kind |-> "null", obj |-> EmptyMeta]
ObjPaid == [kind |-> "object", obj |-> PaidMeta]
ObjPaidBroadcast ==
    [kind |-> "object", obj |-> MetaWith(PaidMeta, "broadcast", "g")]
FnPaid == [kind |-> "function", obj |-> EmptyMeta]

\* ids of edges: a name and a number, as in e_1 and evolved_<Date.now()>
UserEdge(n) == << "e", n >>
NamedEdge(name) == << name, 0 >>
EvolvedEdge(t) == << "evolved", t >>

(***************************************************************************)
(* Node and edge registration.                                             *)
(***************************************************************************)
SeqAdd(s, x) == IF \E i \in DOMAIN s : s[i] = x THEN s ELSE Append(s, x)

SeqSet(s) == { s[i] : i \in DOMAIN s }

\* registerNode: this.nodes.set(id, {..., activation: 0})
NodesAfterRegister(ns, id, cfg) ==
    [n \in (DOMAIN ns) \cup {id} |->
        IF n = id THEN [activation |-> 0, handlers |-> cfg.handlers]
        ELSE ns[n]]

\* registerNode: the id is added to every group of config.groups
GroupsAfterRegister(gs, id, cfg) ==
    [g \in (DOMAIN gs) \cup SeqSet(cfg.groups) |->
        IF g \in SeqSet(cfg.groups)
        THEN SeqAdd(IF g \in DOMAIN gs THEN gs[g] ELSE << >>, id)
        ELSE gs[g]]

\* config.strength || 1.0 : a falsy strength (0) gives the default
StrengthOf(cfg) == IF cfg.strength = 0 THEN DefaultStrength ELSE cfg.strength

\* config.delay || 0
DelayOf(cfg) == IF cfg.delay = 0 THEN DefaultDelay ELSE cfg.delay

\* the record registerCausalEdge stores
\* (given is not a field of the program: it keeps config.strength as passed)
EdgeRecord(id, cfg) ==
    [id |-> id, from |-> cfg.from, to |-> cfg.to,
     strength |-> StrengthOf(cfg), delay |-> DelayOf(cfg),
     conditions |-> cfg.conditions, bidirectional |-> cfg.bidirectional,
     given |-> cfg.strength]

\* this.edges.set(id, record): a Map keeps the place of a key it already has
EdgesAfterRegister(es, id, cfg) ==
    IF \E i \in DOMAIN es : es[i].id = id
    THEN [i \in DOMAIN es |-> IF es[i].id = id THEN EdgeRecord(id, cfg) ELSE es[i]]
    ELSE Append(es, EdgeRecord(id, cfg))

(***************************************************************************)
(* Messages, call frames and the pure parts of propagate.                  *)
(***************************************************************************)
Min(a, b) == IF a < b THEN a ELSE b

Mul(signal, strength) == (signal * strength) \div One

Message(pid, from, to, signal, md) ==
    [id |-> pid, from |-> from, to |-> to, signal |-> signal, metadata |-> md]

NoMsg == Message(0, "null", "null", 0, EmptyMeta)

\* (a cycle guard keyed by the id the message carries)
VisitKeyOfMessage(msg, propagationId) == << msg.to, msg.id >>

\* const visitKey = `${msg.to}_${propagationId}`, propagationId the call's own
VisitKey(msg, propagationId) == << msg.to, propagationId >>

\* (a loop without the cycle guard)
SkipNothing(q, visited, propagationId) == q

\* the leading messages the loop drops with `continue`
RECURSIVE SkipVisited(_, _, _)
SkipVisited(q, visited, propagationId) ==
    IF q = << >> THEN q
    ELSE IF VisitKey(Head(q), propagationId) \in visited
         THEN SkipVisited(Tail(q), visited, propagationId)
         ELSE q

\* (an activation that registers a node it does not find)
ActivateOrCreate(ns, nodeId, signal) ==
    [n \in (DOMAIN ns) \cup {nodeId} |->
        IF n = nodeId
        THEN [activation |-> Min(One, (IF n \in DOMAIN ns THEN ns[n].activation ELSE 0)
                                         + signal),
              handlers |-> IF n \in DOMAIN ns THEN ns[n].handlers ELSE "none"]
        ELSE ns[n]]

\* (an activation that replaces the level instead of adding to it)
ActivateOverwrite(ns, nodeId, signal) ==
    IF nodeId \in DOMAIN ns
    THEN [ns EXCEPT ![nodeId].activation = Min(One, signal)]
    ELSE ns

\* _activateNode: node.activation = Math.min(1.0, node.activation + signal)
ActivateNode(ns, nodeId, signal) ==
    IF nodeId \in DOMAIN ns
    THEN [ns EXCEPT ![nodeId].activation = Min(One, @ + signal)]
    ELSE ns

\* node.handlers, in the order of Object.entries, by what a handler does when
\* it is called: it returns, returns a promise that settles after a timer or
\* I/O (waits, rejects), or throws
HandlersOf(ns, nodeId) ==
    IF nodeId \notin DOMAIN ns THEN << >>
    ELSE CASE ns[nodeId].handlers = "sync" -> << "returns" >>
           [] ns[nodeId].handlers = "async" -> << "waits" >>
           [] ns[nodeId].handlers = "throws" -> << "throws", "returns" >>
           [] ns[nodeId].handlers = "rejects" -> << "rejects", "returns" >>
           [] OTHER -> << >>

Fails(h) == h \in { "throws", "rejects" }

\* (a loop over the handlers without try and catch: the first failure ends it)
RunHandlersUncaught(hs) ==
    LET failing == { k \in DOMAIN hs : Fails(hs[k]) }
        first == CHOOSE k \in failing : \A j \in failing : k <= j
    IN IF failing = {}
       THEN [called |-> Len(hs), handlerResults |-> DOMAIN hs, completed |-> TRUE]
       ELSE [called |-> first, handlerResults |-> 1..(first - 1),
             completed |-> FALSE]

\* the for loop of _activateNode over the handlers: every handler is called
\* inside try/catch, handlerResults gets an entry for each that returned
RunHandlers(hs) ==
    [called |-> Len(hs),
     handlerResults |-> { k \in DOMAIN hs : ~Fails(hs[k]) },
     completed |-> TRUE]

\* what _activateNode returns: null for an unknown node
\* (called is not a field of the program: the number of handlers called)
ActivationResult(ns, nodeId) ==
    IF nodeId \in DOMAIN ns
    THEN [ok |-> TRUE, nodeId |-> nodeId, activation |-> ns[nodeId].activation,
          handlerResults |-> RunHandlers(HandlersOf(ns, nodeId)).handlerResults,
          called |-> RunHandlers(HandlersOf(ns, nodeId)).called]
    ELSE [ok |-> FALSE, nodeId |-> nodeId, activation |-> 0,
          handlerResults |-> {}, called |-> 0]

\* where the call is suspended after _activateNode has started
AwaitKind(ns, nodeId) ==
    IF \E k \in DOMAIN HandlersOf(ns, nodeId) :
          HandlersOf(ns, nodeId)[k] \in { "waits", "rejects" }
    THEN "awaitAsync" ELSE "await"

Reversed(e) == [e EXCEPT !.from = e.to, !.to = e.from]

\* (outgoing edges that take every edge in both directions)
RECURSIVE FindEdgesBothWays(_, _)
FindEdgesBothWays(es, nodeId) ==
    IF es = << >> THEN << >>
    ELSE LET e == Head(es)
             fwd == IF e.from = nodeId THEN << e >> ELSE << >>
             rev == IF e.to = nodeId THEN << Reversed(e) >> ELSE << >>
         IN fwd \o rev \o FindEdgesBothWays(Tail(es), nodeId)

\* _findOutgoingEdges
RECURSIVE FindOutgoingEdges(_, _)
FindOutgoingEdges(es, nodeId) ==
    IF es = << >> THEN << >>
    ELSE LET e == Head(es)
             fwd == IF e.from = nodeId THEN << e >> ELSE << >>
             rev == IF e.bidirectional /\ e.to = nodeId
                    THEN << Reversed(e) >> ELSE << >>
         IN fwd \o rev \o FindOutgoingEdges(Tail(es), nodeId)

\* (key/value matching that stops at one matching key)
EvaluateAnyKey(conditions, msg) ==
    IF conditions.kind = "function"
    THEN MetaGet(msg.metadata, "paymentValid") = "true"
    ELSE \E k \in DOMAIN conditions.obj :
            MetaGet(msg.metadata, k) = conditions.obj[k]

\* _evaluateConditions; the function form is the billing setup's predicate
EvaluateConditions(conditions, msg) ==
    IF conditions.kind = "function"
    THEN MetaGet(msg.metadata, "paymentValid") = "true"
    ELSE \A k \in DOMAIN conditions.obj :
            MetaGet(msg.metadata, k) = conditions.obj[k]

\* if (edge.conditions && !this._evaluateConditions(...)) continue
EdgeFires(e, msg) ==
    e.conditions.kind = "null" \/ EvaluateConditions(e.conditions, msg)

\* the message the setTimeout callback pushes for one edge
Downstream(e, msg, propagationId) ==
    Message(propagationId, msg.to, e.to, Mul(msg.signal, e.strength),
            MetaWith(msg.metadata, "edge", e.id))

\* the timers set by the for loop over the outgoing edges
RECURSIVE Scheduled(_, _, _, _)
Scheduled(out, msg, propagationId, t) ==
    IF out = << >> THEN << >>
    ELSE LET e == Head(out)
             rest == Scheduled(Tail(out), msg, propagationId, t)
         IN IF EdgeFires(e, msg)
            THEN << [due |-> t + e.delay,
                     msg |-> Downstream(e, msg, propagationId)] >> \o rest
            ELSE rest

(***************************************************************************)
(* Self-evolution: _learnPattern.                                          *)
(***************************************************************************)
RECURSIVE SumSeq(_)
SumSeq(s) == IF s = << >> THEN 0 ELSE Head(s) + SumSeq(Tail(s))

\* Array.from(this.edges.values()).some(e => e.from === a && e.to === b)
EdgeExists(es, a, b) == \E i \in DOMAIN es : es[i].from = a /\ es[i].to = b

\* if (observed.count > 5)
ThresholdCrossed(count) == count > ProposeAfter

\* the loop of _learnPattern over the results of one run
RECURSIVE LearnPattern(_, _, _, _, _)
LearnPattern(obs, prop, es, sourceNode, results) ==
    IF results = << >> THEN [obs |-> obs, prop |-> prop]
    ELSE LET r == Head(results) IN
         IF ~r.ok THEN LearnPattern(obs, prop, es, sourceNode, Tail(results))
         ELSE LET pattern == << sourceNode, r.nodeId >>
                  old == IF pattern \in DOMAIN obs THEN obs[pattern] ELSE << >>
                  strength == Append(old, r.activation)
                  obs1 == [p \in (DOMAIN obs) \cup {pattern} |->
                              IF p = pattern THEN strength ELSE obs[p]]
                  avgStrength == SumSeq(strength) \div Len(strength)
                  prop1 ==
                      IF /\ ThresholdCrossed(Len(strength))
                         /\ ~EdgeExists(es, sourceNode, r.nodeId)
                         /\ avgStrength > MinAvgStrength
                      THEN Append(prop,
                             [from |-> sourceNode, to |-> r.nodeId,
                              strength |-> avgStrength,
                              count |-> Len(strength),
                              confidence |->
                                  (Len(strength) * One) \div ConfidenceDivisor])
                      ELSE prop
              IN LearnPattern(obs1, prop1, es, sourceNode, Tail(results))

\* getProposedEvolutions: this.proposedEdges.filter(e => e.confidence > 0.5)
GetProposedEvolutions == SelectSeq(proposedEdges, LAMBDA e : e.confidence > MinConfidence)

(***************************************************************************)
(* The state after construction.                                           *)
(***************************************************************************)
NoBroadcast ==
    [state |-> "none", group |-> "", signal |-> 0, metadata |-> EmptyMeta,
     rest |-> << >>, results |-> << >>]

EmptyMap == [k \in {} |-> 0]

\* new WaveResonanceCausalGraph(): no nodes, no edges, time 0; no call made
NewWaveGraph ==
    [nodes |-> << >>, edges |-> << >>, fieldState |-> EmptyMap, time |-> 0,
     proposedResonances |-> << >>]

\* new TieredCausalGraph(): no users; no timer is pending, no call was made
NoTierUse ==
    /\ users = EmptyMap
    /\ graceTimers = << >>
    /\ thrown = Undefined
    /\ access = << >>

\* registerBuiltInProviders: the ids, in the order of registration
BuiltInProviders == << "claude", "openai", "gemini", "ollama" >>

\* this.activeProvider = null
Null == "null"

\* new AIProviderEngine(): the built-in providers are registered, each with
\* totalRequests 0; no provider is active, the chain and the history are empty
NewEngine ==
    /\ activeProvider = Null
    /\ fallbackChain = << >>
    /\ costs = [p \in SeqSet(BuiltInProviders) |-> 0]
    /\ requestHistory = << >>
    /\ generateCalls = << >>

\* a new wave graph, a new TieredCausalGraph on it, and a new engine
NoWaveUse ==
    /\ wave = NewWaveGraph
    /\ waveCalls = << >>
    /\ NoTierUse
    /\ NewEngine

SubstrateFresh ==
    /\ nodes = EmptyMap
    /\ edges = << >>
    /\ nodeGroups = EmptyMap
    /\ messageQueue = << >>
    /\ timers = << >>
    /\ observedPatterns = EmptyMap
    /\ proposedEdges = << >>
    /\ evolutionHistory = << >>
    /\ calls = << >>
    /\ bcast = NoBroadcast
    /\ now = 0

Fresh ==
    /\ SubstrateFresh
    /\ NoWaveUse

(***************************************************************************)
(* The event loop.                                                         *)
(***************************************************************************)
Finished(f) == f.pc \in {"done", "threw"}

\* the caller awaits every call: it runs only when no call is in progress
Idle ==
    /\ bcast.state # "running"
    /\ \A i \in DOMAIN calls : Finished(calls[i])

\* a continuation that runs before any timer callback
MicrotaskPending ==
    \/ \E i \in DOMAIN calls : calls[i].pc = "await"
    \/ /\ bcast.state = "running"
       /\ calls # << >>
       /\ Finished(calls[Len(calls)])

(***************************************************************************)
(* propagate.  LoopFrom is the while loop from its test up to the next     *)
(* await or to the return: f is the frame of call i, cs the frames, q the  *)
(* queue.                                                                  *)
(***************************************************************************)
\* The frame of a call: its arguments and locals (id is propagationId, cur is
\* msg), and for the properties the nodes when it was called (before), the
\* calls that had not returned when it was called (concurrent), the
\* messages it gave to _activateNode (processed) and how many it shifted
\* off the queue (dequeued).
NewFrame(propagationId, sourceNodeId, signal, metadata) ==
    [id |-> propagationId, source |-> sourceNodeId, signal |-> signal,
     metadata |-> metadata, before |-> nodes,
     concurrent |-> { j \in DOMAIN calls : calls[j].pc \notin { "done", "threw" } },
     pc |-> "await",
     visited |-> {}, results |-> << >>, processed |-> << >>,
     cur |-> NoMsg, dequeued |-> 0]

\* results.map(r => r.nodeId) throws on a null result
ReturnKind(results) ==
    IF \E k \in DOMAIN results : ~results[k].ok THEN "threw" ELSE "done"

LoopFrom(i, f, cs, q) ==
    LET q1 == SkipVisited(q, f.visited, f.id)
        skipped == Len(q) - Len(q1)
    IN IF q1 = << >>
       THEN LET learned == LearnPattern(observedPatterns, proposedEdges, edges,
                                        f.source, f.results)
            IN /\ messageQueue' = << >>
               /\ nodes' = nodes
               /\ observedPatterns' = learned.obs
               /\ proposedEdges' = learned.prop
               /\ calls' = [cs EXCEPT ![i] =
                              [f EXCEPT !.pc = ReturnKind(f.results),
                                        !.cur = NoMsg,
                                        !.dequeued = @ + skipped]]
       ELSE LET msg == Head(q1)
            IN /\ messageQueue' = Tail(q1)
               /\ nodes' = ActivateNode(nodes, msg.to, msg.signal)
               /\ UNCHANGED << observedPatterns, proposedEdges >>
               /\ calls' = [cs EXCEPT ![i] =
                              [f EXCEPT !.pc = AwaitKind(nodes, msg.to),
                                        !.visited = @ \cup {VisitKey(msg, f.id)},
                                        !.processed = Append(@, msg),
                                        !.cur = msg,
                                        !.dequeued = @ + skipped + 1]]

\* propagate up to its first await: the initial message is pushed, then the loop
StartCall(sourceNodeId, signal, metadata) ==
    LET propagationId == Len(calls) + 1
        f == NewFrame(propagationId, sourceNodeId, signal, metadata)
        first == Message(propagationId, "null", sourceNodeId, signal, metadata)
    IN LoopFrom(propagationId, f, Append(calls, f), Append(messageQueue, first))

\* the caller's propagate(sourceNodeId, signal, metadata)
Propagate(sourceNodeId, signal, metadata) ==
    /\ UNCHANGED << waveVars, tierVars, engineVars >>
    /\ Idle
    /\ StartCall(sourceNodeId, signal, metadata)
    /\ UNCHANGED << edges, nodeGroups, timers, evolutionHistory, bcast, now >>

\* after _activateNode: the result is pushed, the timers are set, the loop goes on
\* (a failure that escapes _activateNode rejects the promise propagate awaits)
Continue(i) ==
    LET f == calls[i]
        result == ActivationResult(nodes, f.cur.to)
        f1 == [f EXCEPT !.results = Append(@, result)]
        out == FindOutgoingEdges(edges, f.cur.to)
    IN IF ~RunHandlers(HandlersOf(nodes, f.cur.to)).completed
       THEN /\ calls' = [calls EXCEPT ![i].pc = "threw"]
            /\ UNCHANGED << graphVars, learnVars, messageQueue, timers, bcast, now >>
       ELSE /\ timers' = timers \o Scheduled(out, f.cur, f.id, now)
            /\ LoopFrom(i, f1, calls, messageQueue)
            /\ UNCHANGED << edges, nodeGroups, evolutionHistory, bcast, now >>

\* the microtask that resumes a call after a synchronous handler
Resume(i) ==
    /\ UNCHANGED << waveVars, tierVars, engineVars >>
    /\ i \in DOMAIN calls
    /\ calls[i].pc = "await"
    /\ Continue(i)

\* the promise of an asynchronous handler resolves
HandlerResolve(i) ==
    /\ UNCHANGED << waveVars, tierVars, engineVars >>
    /\ i \in DOMAIN calls
    /\ calls[i].pc = "awaitAsync"
    /\ ~MicrotaskPending
    /\ Continue(i)

\* the next setTimeout callback runs: this.messageQueue.push(...)
NextTimer ==
    CHOOSE k \in DOMAIN timers :
        /\ \A j \in DOMAIN timers : timers[k].due <= timers[j].due
        /\ \A j \in 1..(k - 1) : timers[j].due > timers[k].due

TimerFire ==
    /\ UNCHANGED << waveVars, tierVars, engineVars >>
    /\ timers # << >>
    /\ ~MicrotaskPending
    /\ timers[NextTimer].due <= now
    /\ messageQueue' = Append(messageQueue, timers[NextTimer].msg)
    /\ timers' = [j \in 1..(Len(timers) - 1) |->
                    IF j < NextTimer THEN timers[j] ELSE timers[j + 1]]
    /\ UNCHANGED << graphVars, learnVars, calls, bcast, now >>

\* time passes
Tick ==
    /\ UNCHANGED << waveVars, tierVars, engineVars >>
    /\ now' = now + 1
    /\ UNCHANGED << graphVars, learnVars, messageQueue, timers, calls, bcast >>

(***************************************************************************)
(* broadcast: one awaited propagate per member, in the order of the Set.   *)
(***************************************************************************)
Broadcast(groupName, signal, metadata) ==
    /\ UNCHANGED << waveVars, tierVars, engineVars >>
    /\ Idle
    /\ IF groupName \notin DOMAIN nodeGroups
       THEN /\ bcast' = [NoBroadcast EXCEPT !.state = "done", !.group = groupName]
            /\ UNCHANGED << graphVars, learnVars, messageQueue, timers, calls, now >>
       ELSE /\ bcast' = [state |-> "running", group |-> groupName,
                         signal |-> signal, metadata |-> metadata,
                         rest |-> Tail(nodeGroups[groupName]), results |-> << >>]
            /\ StartCall(Head(nodeGroups[groupName]), signal,
                         MetaWith(metadata, "broadcast", groupName))
            /\ UNCHANGED << edges, nodeGroups, timers, evolutionHistory, now >>

\* the awaited propagate of a member has settled: results.push, next member
BroadcastNext ==
    /\ UNCHANGED << waveVars, tierVars, engineVars >>
    /\ bcast.state = "running"
    /\ calls # << >>
    /\ Finished(calls[Len(calls)])
    /\ IF calls[Len(calls)].pc = "threw"
       THEN /\ bcast' = [bcast EXCEPT !.state = "threw"]
            /\ UNCHANGED << graphVars, learnVars, messageQueue, timers, calls, now >>
       ELSE IF bcast.rest = << >>
       THEN /\ bcast' = [bcast EXCEPT !.state = "done",
                                      !.results = Append(@, Len(calls))]
            /\ UNCHANGED << graphVars, learnVars, messageQueue, timers, calls, now >>
       ELSE /\ bcast' = [bcast EXCEPT !.rest = Tail(@),
                                      !.results = Append(@, Len(calls))]
            /\ StartCall(Head(bcast.rest), bcast.signal,
                         MetaWith(bcast.metadata, "broadcast", bcast.group))
            /\ UNCHANGED << edges, nodeGroups, timers, evolutionHistory, now >>

(***************************************************************************)
(* The caller's registrations and approvals.                               *)
(***************************************************************************)
RegisterNode(id, cfg) ==
    /\ UNCHANGED << waveVars, tierVars, engineVars >>
    /\ Idle
    /\ nodes' = NodesAfterRegister(nodes, id, cfg)
    /\ nodeGroups' = GroupsAfterRegister(nodeGroups, id, cfg)
    /\ UNCHANGED << edges, learnVars, messageQueue, timers, calls, bcast, now >>

RegisterCausalEdge(id, cfg) ==
    /\ UNCHANGED << waveVars, tierVars, engineVars >>
    /\ Idle
    /\ edges' = EdgesAfterRegister(edges, id, cfg)
    /\ UNCHANGED << nodes, nodeGroups, learnVars, messageQueue, timers, calls,
                    bcast, now >>

\* this.proposedEdges.splice(edgeIndex, 1)
Splice(s, edgeIndex) ==
    [j \in 1..(Len(s) - 1) |-> IF j <= edgeIndex THEN s[j] ELSE s[j + 1]]

\* approveEvolution(edgeIndex), edgeIndex counted from 0
ApproveEvolution(edgeIndex) ==
    /\ UNCHANGED << waveVars, tierVars, engineVars >>
    /\ Idle
    /\ IF edgeIndex + 1 \notin DOMAIN proposedEdges
       THEN UNCHANGED vars
       ELSE LET proposed == proposedEdges[edgeIndex + 1]
                edgeId == EvolvedEdge(now)
            IN /\ edges' = EdgesAfterRegister(edges, edgeId,
                              [from |-> proposed.from, to |-> proposed.to,
                               strength |-> proposed.strength, delay |-> 0,
                               conditions |-> NoConditions,
                               bidirectional |-> FALSE])
               /\ proposedEdges' = Splice(proposedEdges, edgeIndex)
               /\ evolutionHistory' = Append(evolutionHistory, edgeId)
               /\ UNCHANGED << nodes, nodeGroups, observedPatterns,
                               messageQueue, timers, calls, bcast, now >>

(***************************************************************************)
(* Graphs built by registration calls on a fresh substrate.                *)
(***************************************************************************)
NodeConfig(handlers, groups) == [handlers |-> handlers, groups |-> groups]

EdgeConfig(from, to, strength, delay, conditions, bidirectional) ==
    [from |-> from, to |-> to, strength |-> strength, delay |-> delay,
     conditions |-> conditions, bidirectional |-> bidirectional]

EmptyGraph == [nodes |-> EmptyMap, edges |-> << >>, nodeGroups |-> EmptyMap]

WithNode(G, id, cfg) ==
    [G EXCEPT !.nodes = NodesAfterRegister(G.nodes, id, cfg),
              !.nodeGroups = GroupsAfterRegister(G.nodeGroups, id, cfg)]

WithEdge(G, id, cfg) ==
    [G EXCEPT !.edges = EdgesAfterRegister(G.edges, id, cfg)]

\* A, B, C with A -> B of strength 0.8 and B -> C of strength 0.5
ChainGraph ==
    LET G1 == WithNode(EmptyGraph, "A", NodeConfig("sync", << >>))
        G2 == WithNode(G1, "B", NodeConfig("sync", << "g" >>))
        G3 == WithNode(G2, "C", NodeConfig("none", << "g" >>))
        G4 == WithEdge(G3, UserEdge(1),
                       EdgeConfig("A", "B", 800, 0, NoConditions, FALSE))
    IN WithEdge(G4, UserEdge(2),
                EdgeConfig("B", "C", 500, 0, NoConditions, FALSE))

\* A -> B and B -> A of strength 1.0, handlers that wait
CycleGraph ==
    LET G1 == WithNode(EmptyGraph, "A", NodeConfig("async", << "g" >>))
        G2 == WithNode(G1, "B", NodeConfig("async", << "g" >>))
        G3 == WithEdge(G2, UserEdge(1),
                       EdgeConfig("A", "B", One, 0, NoConditions, FALSE))
    IN WithEdge(G3, UserEdge(2),
                EdgeConfig("B", "A", One, 0, NoConditions, FALSE))

\* a cycle of length 3 of strength 1.0, one edge delayed
Cycle3Graph ==
    LET G1 == WithNode(EmptyGraph, "A", NodeConfig("sync", << >>))
        G2 == WithNode(G1, "B", NodeConfig("async", << >>))
        G3 == WithNode(G2, "C", NodeConfig("sync", << >>))
        G4 == WithEdge(G3, UserEdge(1),
                       EdgeConfig("A", "B", One, 0, NoConditions, FALSE))
        G5 == WithEdge(G4, UserEdge(2),
                       EdgeConfig("B", "C", One, 1, NoConditions, FALSE))
    IN WithEdge(G5, UserEdge(3),
                EdgeConfig("C", "A", One, 0, NoConditions, FALSE))

\* a bidirectional edge and a self-loop
BidirGraph ==
    LET G1 == WithNode(EmptyGraph, "A", NodeConfig("async", << >>))
        G2 == WithNode(G1, "B", NodeConfig("none", << >>))
        G3 == WithEdge(G2, UserEdge(1),
                       EdgeConfig("A", "B", 500, 0, NoConditions, TRUE))
    IN WithEdge(G3, UserEdge(2),
                EdgeConfig("A", "A", One, 1, NoConditions, FALSE))

\* edges with conditions in object form, one delayed, one handler that waits
GatedGraph ==
    LET G1 == WithNode(EmptyGraph, "A", NodeConfig("sync", << "g" >>))
        G2 == WithNode(G1, "B", NodeConfig("async", << >>))
        G3 == WithNode(G2, "C", NodeConfig("sync", << >>))
        G4 == WithEdge(G3, UserEdge(1),
                       EdgeConfig("A", "B", One, 0, ObjPaid, FALSE))
    IN WithEdge(G4, UserEdge(2),
                EdgeConfig("A", "C", One, 1, ObjPaidBroadcast, FALSE))

\* setupBillingCausality()
BillingGraph ==
    LET G1 == WithNode(EmptyGraph, "payment_received",
                       NodeConfig("none", << "billing_events" >>))
        G2 == WithNode(G1, "subscription_active", NodeConfig("sync", << >>))
        G3 == WithNode(G2, "premium_features", NodeConfig("sync", << >>))
        G4 == WithEdge(G3, NamedEdge("payment_causes_activation"),
                       EdgeConfig("payment_received", "subscription_active",
                                  One, 0, NoConditions, FALSE))
    IN WithEdge(G4, NamedEdge("activation_unlocks_premium"),
                EdgeConfig("subscription_active", "premium_features",
                           One, 0, FnPaid, FALSE))

PlainGraphs == { ChainGraph, CycleGraph, Cycle3Graph, BidirGraph }

GatedGraphs == { GatedGraph, BillingGraph }

\* a substrate on which the graph G has just been registered
Registered(G) ==
    /\ nodes = G.nodes
    /\ edges = G.edges
    /\ nodeGroups = G.nodeGroups
    /\ messageQueue = << >>
    /\ timers = << >>
    /\ observedPatterns = EmptyMap
    /\ proposedEdges = << >>
    /\ evolutionHistory = << >>
    /\ calls = << >>
    /\ bcast = NoBroadcast
    /\ now = 0
    /\ NoWaveUse

InitRuns == \E G \in PlainGraphs : Registered(G)

InitGated == \E G \in GatedGraphs : Registered(G)

(***************************************************************************)
(* The callers of a registered graph: at most maxCalls awaited propagate   *)
(* and broadcast calls, with timer callbacks between and during them.  The *)
(* clock is advanced only while a timer waits for it.                      *)
(***************************************************************************)
RunSignals == { One }

HasConditions == \E i \in DOMAIN edges : edges[i].conditions.kind # "null"

RunMetas == IF HasConditions THEN { EmptyMeta, PaidMeta, UnpaidMeta }
            ELSE { EmptyMeta }

CallerPropagates(maxCalls) ==
    /\ Len(calls) < maxCalls
    /\ \E s \in DOMAIN nodes, x \in RunSignals, md \in RunMetas :
          Propagate(s, x, md)

CallerBroadcasts(maxCalls) ==
    \E g \in DOMAIN nodeGroups, x \in RunSignals, md \in RunMetas :
        /\ Len(calls) + Len(nodeGroups[g]) <= maxCalls
        /\ Broadcast(g, x, md)

ClockAdvances ==
    /\ now < MaxClock
    /\ \E k \in DOMAIN timers : timers[k].due > now
    /\ Tick

EventLoop ==
    \/ BroadcastNext
    \/ \E i \in DOMAIN calls : Resume(i)
    \/ \E i \in DOMAIN calls : HandlerResolve(i)
    \/ TimerFire
    \/ ClockAdvances

NextRuns == CallerPropagates(MaxCalls) \/ CallerBroadcasts(MaxCalls) \/ EventLoop

SpecRuns == InitRuns /\ [][NextRuns]_vars

NextGated ==
    CallerPropagates(MaxGatedCalls) \/ CallerBroadcasts(MaxGatedCalls) \/ EventLoop

SpecGated == InitGated /\ [][NextGated]_vars

NextCycles ==
    CallerPropagates(MaxFairCalls) \/ CallerBroadcasts(MaxFairCalls) \/ EventLoop

\* with the scheduling of the event loop: a suspended call is resumed, a
\* handler's promise settles
FairRuns ==
    /\ InitRuns
    /\ [][NextCycles]_vars
    /\ \A i \in 1..MaxFairCalls :
          WF_vars(Resume(i)) /\ WF_vars(HandlerResolve(i))
    /\ WF_vars(BroadcastNext)

(***************************************************************************)
(* The whole interface on a fresh substrate: registrations, approvals and  *)
(* awaited calls in any order.  An id is registered once; the clock        *)
(* is advanced only while a timer waits for it.                            *)
(***************************************************************************)
ApiNodeIds == { "A", "B" }

ApiNodeConfigs == { NodeConfig("sync", << >>), NodeConfig("async", << "g" >>) }

ApiEdgeConfigs ==
    { EdgeConfig(a, b, 0, 0, NoConditions, FALSE) :
        a \in ApiNodeIds, b \in ApiNodeIds }
    \cup { EdgeConfig(a, b, 500, 1, NoConditions, FALSE) :
        a \in ApiNodeIds, b \in ApiNodeIds }

ApiSignals == { 0 - One, One }

Init == Fresh

Next ==
    \/ \E id \in ApiNodeIds \ DOMAIN nodes, cfg \in ApiNodeConfigs :
          RegisterNode(id, cfg)
    \/ \E n \in 1..MaxEdges, cfg \in ApiEdgeConfigs :
          /\ \A i \in DOMAIN edges : edges[i].id # UserEdge(n)
          /\ RegisterCausalEdge(UserEdge(n), cfg)
    \/ ApproveEvolution(0)
    \/ /\ Len(calls) < MaxApiCalls
       /\ \E s \in ApiNodeIds, x \in ApiSignals : Propagate(s, x, EmptyMeta)
    \/ \E g \in DOMAIN nodeGroups, x \in ApiSignals :
          /\ Len(calls) + Len(nodeGroups[g]) <= MaxApiCalls
          /\ Broadcast(g, x, EmptyMeta)
    \/ BroadcastNext
    \/ \E i \in DOMAIN calls : Resume(i)
    \/ \E i \in DOMAIN calls : HandlerResolve(i)
    \/ TimerFire
    \/ ClockAdvances

Spec == Init /\ [][Next]_vars

(***************************************************************************)
(* Repeated calls with the same arguments on the chain, also with a        *)
(* signal of 0, which leaves every activation as it was.                   *)
(***************************************************************************)
InitRepeat ==
    /\ nodes = ChainGraph.nodes
    /\ edges = ChainGraph.edges
    /\ nodeGroups = ChainGraph.nodeGroups
    /\ messageQueue = << >>
    /\ timers = << >>
    /\ observedPatterns = EmptyMap
    /\ proposedEdges = << >>
    /\ evolutionHistory = << >>
    /\ calls = << >>
    /\ bcast = NoBroadcast
    /\ now = 0
    /\ NoWaveUse

NextRepeat ==
    \/ /\ Len(calls) < MaxCalls
       /\ \E s \in DOMAIN nodes, x \in { 0, One } : Propagate(s, x, EmptyMeta)
    \/ \E i \in DOMAIN calls : Resume(i)
    \/ TimerFire

SpecRepeat == InitRepeat /\ [][NextRepeat]_vars

(***************************************************************************)
(* Self-evolution on a chain A -> C -> B: the caller propagates from A     *)
(* again and again, letting the pending timers run before its next call,   *)
(* and approves proposals.  It broadcasts once, calls propagate once with  *)
(* an id that is not registered, and registers one more edge.  The clock   *)
(* moves between approvals.                                                *)
(***************************************************************************)
EvolveGraph ==
    LET G1 == WithNode(EmptyGraph, "A", NodeConfig("sync", << "g" >>))
        G2 == WithNode(G1, "C", NodeConfig("sync", << >>))
        G3 == WithNode(G2, "B", NodeConfig("none", << >>))
        G4 == WithEdge(G3, UserEdge(1),
                       EdgeConfig("A", "C", One, 0, NoConditions, FALSE))
    IN WithEdge(G4, UserEdge(2),
                EdgeConfig("C", "B", One, 0, NoConditions, FALSE))

InitEvolve == Registered(EvolveGraph)

EvolvePropagates ==
    /\ Len(calls) < MaxEvolveCalls
    /\ timers = << >>
    /\ Propagate("A", One, EmptyMeta)

EvolveUnknown ==
    /\ Len(calls) < MaxEvolveCalls
    /\ timers = << >>
    /\ \A i \in DOMAIN calls : calls[i].source # "X"
    /\ Propagate("X", One, EmptyMeta)

EvolveBroadcasts ==
    /\ Len(calls) < MaxEvolveCalls
    /\ timers = << >>
    /\ bcast.state = "none"
    /\ Broadcast("g", One, EmptyMeta)

EvolveRegisters ==
    /\ timers = << >>
    /\ \A i \in DOMAIN edges : edges[i].id # UserEdge(3)
    /\ RegisterCausalEdge(UserEdge(3),
                          EdgeConfig("A", "B", 500, 0, NoConditions, FALSE))

EvolveApproves ==
    /\ timers = << >>
    /\ Len(evolutionHistory) < MaxApprovals
    /\ \E edgeIndex \in 0..1 : ApproveEvolution(edgeIndex)

ClockTicks ==
    /\ now < MaxClock
    /\ Idle
    /\ timers = << >>
    /\ proposedEdges # << >>
    /\ Tick

NextEvolve ==
    \/ EvolvePropagates
    \/ EvolveUnknown
    \/ EvolveBroadcasts
    \/ EvolveRegisters
    \/ EvolveApproves
    \/ ClockTicks
    \/ BroadcastNext
    \/ \E i \in DOMAIN calls : Resume(i)
    \/ TimerFire

SpecEvolve == InitEvolve /\ [][NextEvolve]_vars

(***************************************************************************)
(* Many observations of the same pairs: the caller propagates from A on    *)
(* the chain, letting the pending timers run before its next call, and     *)
(* broadcasts once.                                                        *)
(***************************************************************************)
ObservePropagates ==
    /\ Len(calls) < MaxObserveCalls
    /\ timers = << >>
    /\ Propagate("A", One, EmptyMeta)

ObserveBroadcasts ==
    /\ Len(calls) < MaxObserveCalls
    /\ timers = << >>
    /\ bcast.state = "none"
    /\ Broadcast("g", One, EmptyMeta)

NextObserve ==
    \/ ObservePropagates
    \/ ObserveBroadcasts
    \/ BroadcastNext
    \/ \E i \in DOMAIN calls : Resume(i)
    \/ TimerFire

SpecObserve == InitEvolve /\ [][NextObserve]_vars

(***************************************************************************)
(* Handlers that fail: A has a handler that throws and one that returns, B *)
(* a handler whose promise rejects and one that returns.                   *)
(***************************************************************************)
FaultGraph ==
    LET G1 == WithNode(EmptyGraph, "A", NodeConfig("throws", << "g" >>))
        G2 == WithNode(G1, "B", NodeConfig("rejects", << "g" >>))
        G3 == WithNode(G2, "C", NodeConfig("sync", << >>))
        G4 == WithEdge(G3, UserEdge(1),
                       EdgeConfig("A", "B", One, 0, NoConditions, FALSE))
    IN WithEdge(G4, UserEdge(2),
                EdgeConfig("B", "C", 500, 1, NoConditions, FALSE))

InitFaults == Registered(FaultGraph)

NextFaults ==
    CallerPropagates(MaxFaultCalls) \/ CallerBroadcasts(MaxFaultCalls) \/ EventLoop

SpecFaults == InitFaults /\ [][NextFaults]_vars

(***************************************************************************)
(* Registration at any time between awaited calls, also of an id that is   *)
(* registered already.                                                     *)
(***************************************************************************)
RegisterConfigs ==
    { NodeConfig("sync", << >>), NodeConfig("async", << "g" >>),
      NodeConfig("none", << "h" >>) }

NextRegister ==
    \/ \E id \in ApiNodeIds, cfg \in RegisterConfigs : RegisterNode(id, cfg)
    \/ /\ Len(calls) < MaxRegisterCalls
       /\ \E s \in DOMAIN nodes : Propagate(s, One, EmptyMeta)
    \/ \E i \in DOMAIN calls : Resume(i)
    \/ \E i \in DOMAIN calls : HandlerResolve(i)

SpecRegister == Init /\ [][NextRegister]_vars

(***************************************************************************)
(* One propagate call on a registered graph and nothing after it but the   *)
(* event loop, whose timers and continuations all get their turn.          *)
(***************************************************************************)
InitOnce ==
    \E G \in PlainGraphs \cup GatedGraphs \cup { EvolveGraph, FaultGraph } :
        Registered(G)

OnceSignals == { 500, One }

NextOnce ==
    \/ calls = << >> /\ \E s \in DOMAIN nodes, x \in OnceSignals, md \in RunMetas :
                           Propagate(s, x, md)
    \/ \E i \in DOMAIN calls : Resume(i)
    \/ \E i \in DOMAIN calls : HandlerResolve(i)
    \/ TimerFire
    \/ ClockAdvances

FairOnce ==
    /\ InitOnce
    /\ [][NextOnce]_vars
    /\ WF_vars(Resume(1))
    /\ WF_vars(HandlerResolve(1))
    /\ WF_vars(TimerFire)
    /\ WF_vars(ClockAdvances)

(***************************************************************************)
(* Calls that are not awaited: the caller's code runs as a task of its own *)
(* (an event, a timer of the caller) whenever no continuation is pending,  *)
(* also while earlier calls are suspended on a handler's promise.          *)
(***************************************************************************)
PropagateUnawaited(sourceNodeId, signal, metadata) ==
    /\ UNCHANGED << waveVars, tierVars, engineVars >>
    /\ ~MicrotaskPending
    /\ StartCall(sourceNodeId, signal, metadata)
    /\ UNCHANGED << edges, nodeGroups, timers, evolutionHistory, bcast, now >>

NextOverlap ==
    \/ /\ Len(calls) < MaxOverlapCalls
       /\ \E s \in DOMAIN nodes : PropagateUnawaited(s, One, EmptyMeta)
    \/ \E i \in DOMAIN calls : Resume(i)
    \/ \E i \in DOMAIN calls : HandlerResolve(i)
    \/ TimerFire
    \/ ClockAdvances

SpecOverlap == InitRuns /\ [][NextOverlap]_vars

(***************************************************************************)
(* WaveResonanceCausalGraph (src/CAUSAL_GRAPH/wave-resonance-causal-       *)
(* graph.js).  Frequencies are thousandths of a hertz, amplitudes, ratios  *)
(* and resonances thousandths, durations thousandths of a millisecond.     *)
(* this.nodes and this.edges are Maps: sequences in insertion order.       *)
(* A node's phase is Math.random() * 2 * PI, so the value of its wave at a *)
(* given time is any value between -amplitude and amplitude: an update     *)
(* takes sin(arg) from WaveSamples.  Edges have phaseShift 0, cos(0) = 1.  *)
(***************************************************************************)
BaseFrequency == 220000
SampleRate == 1000
MsPerSecond == 1000
GateDivisor == 64
LineDivisor == 12
ColorDivisor == 60
ToneDivisor == 120
DefaultLine == 3
DefaultColor == 3
DefaultTone == 3
MinFrequency == 200000
MaxFrequency == 2000000
RatioTolerance == 50
TransferFactor == 10
LearnEvery == 100
ActiveAmplitude == 300
MinResonance == 600
MinListedResonance == 700
Decay == 950
TimerDelay == 1

\* the result of arithmetic on undefined (a node registered without a gate)
NaN == 0 - (One * One * One)

Abs(x) == IF x < 0 THEN 0 - x ELSE x

Max(a, b) == IF a > b THEN a ELSE b

\* a product of two numbers in thousandths; NaN if either is NaN
Times(a, b) == IF a = NaN \/ b = NaN THEN NaN ELSE (a * b) \div One

\* _calculateFrequency
CalculateFrequency(gate, line, color, tone) ==
    IF gate = NaN THEN NaN
    ELSE LET gateMultiplier == One + (gate * One) \div GateDivisor
             lineMultiplier == One + (line * One) \div LineDivisor
             colorMultiplier == One + (color * One) \div ColorDivisor
             toneMultiplier == One + (tone * One) \div ToneDivisor
             frequency == Times(Times(Times(Times(BaseFrequency, gateMultiplier),
                                            lineMultiplier),
                                      colorMultiplier),
                                toneMultiplier)
         IN Max(MinFrequency, Min(MaxFrequency, frequency))

\* _getFieldHarmonic: harmonics[field] || 1.0
GetFieldHarmonic(field) ==
    CASE field = "Mind" -> 1500
      [] field = "Heart" -> 1000
      [] field = "Body" -> 750
      [] field = "Shadow" -> 500
      [] field = "Light" -> 2000
      [] field = "Neutral" -> 1250
      [] field = "Sun" -> 1618
      [] field = "Moon" -> 1414
      [] field = "Mercury" -> 1732
      [] OTHER -> One

\* the ratios of _calculateHarmonicResonance
HarmonicRatios ==
    { [ratio |-> 1000, strength |-> 1000], [ratio |-> 2000, strength |-> 900],
      [ratio |-> 1500, strength |-> 800], [ratio |-> 1333, strength |-> 700],
      [ratio |-> 1250, strength |-> 600], [ratio |-> 1618, strength |-> 750] }

\* toNode.frequency / fromNode.frequency
FreqRatio(toFrequency, fromFrequency) ==
    IF toFrequency = NaN \/ fromFrequency = NaN THEN NaN
    ELSE (toFrequency * One) \div fromFrequency

\* _calculateHarmonicResonance: the best strength * (1 - diff) over the ratios
\* within 0.05 of freqRatio, 0 if there is none
CalculateHarmonicResonance(freqRatio) ==
    IF freqRatio = NaN THEN 0
    ELSE LET near == { r \in HarmonicRatios :
                         Abs(freqRatio - r.ratio) < RatioTolerance }
             found == { Times(r.strength, One - Abs(freqRatio - r.ratio)) :
                          r \in near }
         IN IF found = { } THEN 0
            ELSE CHOOSE x \in found : \A y \in found : y <= x

\* a group name: `${name}${suffix}`
Group(name, suffix) == [name |-> name, suffix |-> suffix]

\* the config of registerNode: gate is NaN when the config has none, field
\* is Undefined when it has none; line, color and tone are left to their
\* defaults and the waveform to 'sine'
WaveNodeConfig(gate, field, groups) ==
    [gate |-> gate, field |-> field, groups |-> groups]

WaveIds(w) == { w.nodes[k].id : k \in DOMAIN w.nodes }

\* this.nodes.get(id), for a registered id
WaveNode(w, id) == w.nodes[CHOOSE k \in DOMAIN w.nodes : w.nodes[k].id = id]

\* map.set(key, value): a new key goes to the end, an old one keeps its place
MapSet(s, id, value) ==
    IF \E k \in DOMAIN s : s[k].id = id
    THEN [k \in DOMAIN s |-> IF s[k].id = id THEN value ELSE s[k]]
    ELSE Append(s, value)

FieldSet(fs, id, value) ==
    [n \in (DOMAIN fs) \cup {id} |-> IF n = id THEN value ELSE fs[n]]

\* the node registerNode stores: an oscillator with amplitude 0.  The node
\* keeps no type.
WaveNodeRecord(id, cfg) ==
    LET frequency == CalculateFrequency(cfg.gate, DefaultLine, DefaultColor,
                                        DefaultTone)
        fieldHarmonic == GetFieldHarmonic(cfg.field)
    IN [id |-> id, gate |-> cfg.gate, field |-> cfg.field,
        frequency |-> Times(frequency, fieldHarmonic),
        amplitude |-> 0, groups |-> cfg.groups]

\* registerNode: this.nodes.set(id, {...}), this.fieldState.set(id, 0)
WaveAfterRegisterNode(w, id, cfg) ==
    [w EXCEPT !.nodes = MapSet(@, id, WaveNodeRecord(id, cfg)),
              !.fieldState = FieldSet(@, id, 0)]

\* the config of registerResonanceEdge
WaveEdgeConfig(from, to, strength, bidirectional) ==
    [from |-> from, to |-> to, strength |-> strength,
     bidirectional |-> bidirectional]

\* the edge record registerResonanceEdge stores
ResonanceEdge(w, id, cfg) ==
    [id |-> id, from |-> cfg.from, to |-> cfg.to,
     strength |-> IF cfg.strength = 0 THEN One ELSE cfg.strength,
     phaseShift |-> 0,
     harmonicResonance |->
        IF cfg.from \in WaveIds(w) /\ cfg.to \in WaveIds(w)
        THEN CalculateHarmonicResonance(
                FreqRatio(WaveNode(w, cfg.to).frequency,
                          WaveNode(w, cfg.from).frequency))
        ELSE 0,
     bidirectional |-> cfg.bidirectional]

\* (an edge registration that does not look at the endpoints)
RegisterEdgeUnchecked(w, id, cfg) ==
    [w EXCEPT !.edges = MapSet(@, id, ResonanceEdge(w, id, cfg))]

\* registerResonanceEdge: if (!fromNode || !toNode) return
WaveAfterRegisterEdge(w, id, cfg) ==
    IF cfg.from \notin WaveIds(w) \/ cfg.to \notin WaveIds(w)
    THEN w
    ELSE [w EXCEPT !.edges = MapSet(@, id, ResonanceEdge(w, id, cfg))]

\* _generateWave: amplitude * sin(arg), sample standing for sin(arg)
GenerateWave(amplitude, frequency, sample) ==
    IF frequency = NaN THEN NaN ELSE Times(amplitude, sample)

\* the pairs (i, j), i < j, of positions 1..n in the order of the two loops
OrderedPairs(n) ==
    SelectSeq([k \in 1..(n * n) |-> << ((k - 1) \div n) + 1, ((k - 1) % n) + 1 >>],
              LAMBDA p : p[1] < p[2])

WaveEdgeBetween(w, a, b) ==
    \E k \in DOMAIN w.edges :
        \/ (w.edges[k].from = a /\ w.edges[k].to = b)
        \/ (w.edges[k].from = b /\ w.edges[k].to = a)

\* _learnResonancePatterns: a proposal for every pair of nodes with an
\* amplitude above 0.3, a resonance above 0.6 and no edge between them
LearnResonancePatterns(w) ==
    LET activeNodes == SelectSeq(w.nodes, LAMBDA n : n.amplitude > ActiveAmplitude)
        Resonance(p) ==
            CalculateHarmonicResonance(
                FreqRatio(activeNodes[p[2]].frequency, activeNodes[p[1]].frequency))
        strong == SelectSeq(OrderedPairs(Len(activeNodes)),
                     LAMBDA p : /\ Resonance(p) > MinResonance
                                /\ ~WaveEdgeBetween(w, activeNodes[p[1]].id,
                                                    activeNodes[p[2]].id))
    IN [w EXCEPT !.proposedResonances =
          @ \o [k \in DOMAIN strong |->
                  [from |-> activeNodes[strong[k][1]].id,
                   to |-> activeNodes[strong[k][2]].id,
                   resonance |-> Resonance(strong[k]),
                   freqRatio |-> FreqRatio(activeNodes[strong[k][2]].frequency,
                                           activeNodes[strong[k][1]].frequency)]]]

\* the second loop of _updateWaveField: every edge in turn raises the
\* amplitude of its target by |transferred| * 0.01, up to 1.0 (the handler
\* it then calls is given values and changes nothing of the graph)
RECURSIVE ApplyCouplings(_, _, _)
ApplyCouplings(ns, fs, es) ==
    IF es = << >> THEN ns
    ELSE LET edge == Head(es)
             stored == IF edge.from \in DOMAIN fs THEN fs[edge.from] ELSE 0
             sourceValue == IF stored = NaN THEN 0 ELSE stored
             \* Math.abs(transferred)
             size == Times(Times(Abs(sourceValue), Abs(edge.strength)),
                           edge.harmonicResonance)
             ns1 == [k \in DOMAIN ns |->
                       IF ns[k].id = edge.to
                       THEN [ns[k] EXCEPT !.amplitude =
                               IF @ = NaN THEN NaN
                               ELSE Min(One, @ + Times(size, TransferFactor))]
                       ELSE ns[k]]
         IN ApplyCouplings(ns1, fs, Tail(es))

\* _updateWaveField(step): the time, the wave value of every node, the
\* couplings, and every 100th step the learning
UpdateWaveField(w, step, sample) ==
    LET fs == [n \in (DOMAIN w.fieldState) \cup WaveIds(w) |->
                 IF n \in WaveIds(w)
                 THEN GenerateWave(WaveNode(w, n).amplitude,
                                   WaveNode(w, n).frequency, sample[n])
                 ELSE w.fieldState[n]]
        w1 == [w EXCEPT !.time = (step * One) \div SampleRate,
                        !.fieldState = fs,
                        !.nodes = ApplyCouplings(@, fs, w.edges)]
    IN IF step % LearnEvery = 0 THEN LearnResonancePatterns(w1) ELSE w1

\* the values sin(arg) is taken from: a zero and a crest
WaveSamples == { 0, One }

\* one value of sin(arg) for every node.  The value of a node's wave is read
\* by the couplings only, and for the source of an edge; a node that is not
\* the source of an edge, or whose wave is 0 or NaN whatever the value, is
\* given the crest.
SamplesFor(w) ==
    { s \in [WaveIds(w) -> WaveSamples] :
        \A n \in WaveIds(w) :
            ( \/ WaveNode(w, n).amplitude = 0
              \/ WaveNode(w, n).frequency = NaN
              \/ ~ \E k \in DOMAIN w.edges : w.edges[k].from = n )
            => s[n] = One }

SetAmplitude(w, ids, amplitude) ==
    [w EXCEPT !.nodes = [k \in DOMAIN @ |->
                           IF @[k].id \in ids
                           THEN [@[k] EXCEPT !.amplitude = amplitude]
                           ELSE @[k]]]

\* (a step count rounded up)
StepsRoundedUp(duration) ==
    IF duration = NaN THEN NaN
    ELSE (duration + (MsPerSecond * One) \div SampleRate - 1)
            \div ((MsPerSecond * One) \div SampleRate)

\* propagate: Math.floor(duration / (1000 / this.sampleRate))
Steps(duration) ==
    IF duration = NaN THEN NaN
    ELSE duration \div ((MsPerSecond * One) \div SampleRate)

\* propagate: sourceNode.amplitude *= 0.95
DecaySource(w, source) ==
    [w EXCEPT !.nodes = [k \in DOMAIN @ |->
                           IF @[k].id = source
                           THEN [@[k] EXCEPT !.amplitude = Times(@, Decay)]
                           ELSE @[k]]]

\* broadcast: the ids of the nodes whose groups include groupName
GroupMembers(w, groupName) ==
    LET members == SelectSeq(w.nodes, LAMBDA n : groupName \in SeqSet(n.groups))
    IN [k \in DOMAIN members |-> members[k].id]

\* getProposedResonances
GetProposedResonances(w) ==
    SelectSeq(w.proposedResonances, LAMBDA r : r.resonance > MinListedResonance)

\* edge ids: the caller's `r_${n}`, and `evolved_resonance_${Date.now()}`
WaveUserEdge(n) == << "r", n >>
EvolvedResonance(t) == << "evolved_resonance", t >>

\* approveResonance(index), index counted from 0
WaveAfterApprove(w, index, t) ==
    IF index + 1 \notin DOMAIN w.proposedResonances THEN w
    ELSE LET proposed == w.proposedResonances[index + 1]
             w1 == WaveAfterRegisterEdge(w, EvolvedResonance(t),
                      WaveEdgeConfig(proposed.from, proposed.to,
                                     proposed.resonance, TRUE))
         IN [w1 EXCEPT !.proposedResonances = Splice(@, index)]

(***************************************************************************)
(* The calls on the wave graph.  The caller awaits propagate and           *)
(* broadcast.  propagate runs _updateWaveField synchronously, is resumed   *)
(* by a microtask, sets a timer of 1 ms and goes on when it fires.         *)
(***************************************************************************)
\* The frame of a call: kind "propagate", "broadcast" or "edge" (a
\* registerResonanceEdge that returned at its test), the arguments, steps and
\* step of propagate, the time its timer is due, and for the properties the
\* number of field updates it made (updates), of timers that fired for it
\* (ticks) and the ids a broadcast returned (targets).
WaveFrame(kind, source, group, amplitude, duration) ==
    [kind |-> kind, source |-> source, group |-> group,
     amplitude |-> amplitude, duration |-> duration,
     steps |-> Steps(duration), step |-> 0, pc |-> "returned", due |-> 0,
     updates |-> 0, ticks |-> 0, targets |-> << >>]

NoGroup == Group("", "")

WaveIdle ==
    \A i \in DOMAIN waveCalls : waveCalls[i].pc \in { "done", "returned" }

\* propagate up to its first await or, without a step to make, to its end
PropagateStart(w, sourceNodeId, amplitude, duration, sample) ==
    IF sourceNodeId \notin WaveIds(w)
    THEN [wave |-> w, pc |-> "returned", updates |-> 0]
    ELSE LET w1 == SetAmplitude(w, { sourceNodeId }, amplitude)
         IN IF 0 < Steps(duration)
            THEN [wave |-> UpdateWaveField(w1, 0, sample), pc |-> "await",
                  updates |-> 1]
            ELSE [wave |-> DecaySource(w1, sourceNodeId), pc |-> "done",
                  updates |-> 0]

\* the caller's propagate(sourceNodeId, amplitude, duration)
WavePropagate(sourceNodeId, amplitude, duration) ==
    /\ WaveIdle
    /\ \E sample \in SamplesFor(SetAmplitude(wave, { sourceNodeId }, amplitude)) :
          LET started == PropagateStart(wave, sourceNodeId, amplitude, duration,
                                        sample)
              f == WaveFrame("propagate", sourceNodeId, NoGroup, amplitude,
                             duration)
          IN /\ wave' = started.wave
             /\ waveCalls' = Append(waveCalls,
                                [f EXCEPT !.pc = started.pc,
                                          !.updates = started.updates])
    /\ UNCHANGED << substrateVars, now, users, tierVars, engineVars >>

\* the await of _updateWaveField is over: setTimeout(resolve, 1000 / sampleRate)
WaveResume(i) ==
    /\ i \in DOMAIN waveCalls
    /\ waveCalls[i].pc = "await"
    /\ waveCalls' = [waveCalls EXCEPT ![i].pc = "timer",
                                      ![i].due = now + TimerDelay]
    /\ UNCHANGED << substrateVars, now, wave, users, tierVars, engineVars >>

\* the timer fires, at its due time or later: the next step of the loop, or
\* after the last one the decay of the source
WaveTimerFire(i) ==
    /\ i \in DOMAIN waveCalls
    /\ waveCalls[i].pc = "timer"
    /\ now' = Max(now, waveCalls[i].due)
    /\ LET f == waveCalls[i]
           step == f.step + 1
       IN IF step < f.steps
          THEN \E sample \in SamplesFor(wave) :
                  /\ wave' = UpdateWaveField(wave, step, sample)
                  /\ waveCalls' = [waveCalls EXCEPT ![i].pc = "await",
                                                    ![i].step = step,
                                                    ![i].updates = @ + 1,
                                                    ![i].ticks = @ + 1]
          ELSE /\ wave' = DecaySource(wave, f.source)
               /\ waveCalls' = [waveCalls EXCEPT ![i].pc = "done",
                                                 ![i].step = step,
                                                 ![i].ticks = @ + 1]
    /\ UNCHANGED << substrateVars, users, tierVars, engineVars >>

\* what broadcast does to the graph and what it returns
BroadcastResult(w, groupName, amplitude, sample) ==
    LET nodeIds == GroupMembers(w, groupName)
    IN IF nodeIds = << >>
       THEN [wave |-> w, pc |-> "returned", nodeIds |-> << >>, updates |-> 0]
       ELSE [wave |-> UpdateWaveField(SetAmplitude(w, SeqSet(nodeIds), amplitude),
                                      0, sample),
             pc |-> "done", nodeIds |-> nodeIds, updates |-> 1]

\* the caller's broadcast(groupName, amplitude)
WaveBroadcast(groupName, amplitude) ==
    /\ WaveIdle
    /\ \E sample \in SamplesFor(SetAmplitude(wave,
                                   SeqSet(GroupMembers(wave, groupName)),
                                   amplitude)) :
          LET r == BroadcastResult(wave, groupName, amplitude, sample)
              f == WaveFrame("broadcast", "", groupName, amplitude, 0)
          IN /\ wave' = r.wave
             /\ waveCalls' = Append(waveCalls,
                                [f EXCEPT !.pc = r.pc, !.targets = r.nodeIds,
                                          !.updates = r.updates])
    /\ UNCHANGED << substrateVars, now, users, tierVars, engineVars >>

WaveRegisterNode(id, cfg) ==
    /\ WaveIdle
    /\ wave' = WaveAfterRegisterNode(wave, id, cfg)
    /\ UNCHANGED << substrateVars, now, waveCalls, users, tierVars, engineVars >>

\* registerResonanceEdge; a call that returns at its test is kept as a frame
RegisterResonanceEdge(id, cfg) ==
    /\ WaveIdle
    /\ wave' = WaveAfterRegisterEdge(wave, id, cfg)
    /\ waveCalls' =
          IF cfg.from \notin WaveIds(wave) \/ cfg.to \notin WaveIds(wave)
          THEN Append(waveCalls, WaveFrame("edge", cfg.from, NoGroup, 0, 0))
          ELSE waveCalls
    /\ UNCHANGED << substrateVars, now, users, tierVars, engineVars >>

ApproveResonance(index) ==
    /\ WaveIdle
    /\ wave' = WaveAfterApprove(wave, index, now)
    /\ UNCHANGED << substrateVars, now, waveCalls, users, tierVars, engineVars >>

(***************************************************************************)
(* A wave graph of three oscillators of gate 32 in one group: M and N in   *)
(* the field Mind, L in the field Light (a fourth above M).  The caller    *)
(* registers a fourth node, edges with and without registered endpoints,   *)
(* propagates for 0 to 2.5 ms, broadcasts and approves.                    *)
(***************************************************************************)
WaveTriad ==
    LET g == << Group("g", "") >>
    IN WaveAfterRegisterNode(
          WaveAfterRegisterNode(
             WaveAfterRegisterNode(NewWaveGraph, "M", WaveNodeConfig(32, "Mind", g)),
             "L", WaveNodeConfig(32, "Light", g)),
          "N", WaveNodeConfig(32, "Mind", g))

InitWave ==
    /\ SubstrateFresh
    /\ wave = WaveTriad
    /\ waveCalls = << >>
    /\ NoTierUse
    /\ NewEngine

WaveRegistrations ==
    { << "H", WaveNodeConfig(32, "Heart", << >>) >> }

WaveEdgeConfigs ==
    { WaveEdgeConfig("M", "L", 0, FALSE), WaveEdgeConfig("L", "N", 500, FALSE),
      WaveEdgeConfig("M", "X", 0, FALSE), WaveEdgeConfig("X", "M", 0, TRUE) }

WaveSources == { "M", "X" }

WaveDurations == { 0, 2500 }

WaveGroups == { Group("g", ""), Group("h", "") }

NextWave ==
    \/ \E r \in WaveRegistrations :
          /\ r[1] \notin WaveIds(wave)
          /\ WaveRegisterNode(r[1], r[2])
    \/ \E n \in 1..MaxWaveEdges, cfg \in WaveEdgeConfigs :
          /\ Len(waveCalls) < MaxWaveCalls
          /\ \A k \in DOMAIN wave.edges : wave.edges[k].id # WaveUserEdge(n)
          /\ RegisterResonanceEdge(WaveUserEdge(n), cfg)
    \/ \E index \in 0..MaxWaveIndex : ApproveResonance(index)
    \/ /\ Len(waveCalls) < MaxWaveCalls
       /\ \E s \in WaveSources, d \in WaveDurations : WavePropagate(s, One, d)
    \/ /\ Len(waveCalls) < MaxWaveCalls
       /\ \E g \in WaveGroups : WaveBroadcast(g, One)
    \/ \E i \in DOMAIN waveCalls : WaveResume(i)
    \/ \E i \in DOMAIN waveCalls : WaveTimerFire(i)

SpecWave == InitWave /\ [][NextWave]_vars

\* the triad with an edge from M to L, and propagate calls that overlap
InitWaveRuns ==
    /\ SubstrateFresh
    /\ wave = WaveAfterRegisterEdge(WaveTriad, WaveUserEdge(1),
                                    WaveEdgeConfig("M", "L", 0, FALSE))
    /\ waveCalls = << >>
    /\ NoTierUse
    /\ NewEngine

NextWaveRuns ==
    \/ /\ Len(waveCalls) < MaxFairWaveCalls
       /\ \E s \in WaveSources, d \in WaveDurations : WavePropagate(s, One, d)
    \/ /\ Len(waveCalls) < MaxFairWaveCalls
       /\ \E g \in WaveGroups : WaveBroadcast(g, One)
    \/ \E i \in DOMAIN waveCalls : WaveResume(i)
    \/ \E i \in DOMAIN waveCalls : WaveTimerFire(i)

\* the timers fire and the microtasks run
FairWave ==
    /\ InitWaveRuns
    /\ [][NextWaveRuns]_vars
    /\ \A i \in 1..MaxFairWaveCalls :
          WF_vars(WaveResume(i)) /\ WF_vars(WaveTimerFire(i))

(***************************************************************************)
(* TieredCausalGraph (src/unnamed/part_005): this.graph is a               *)
(* WaveResonanceCausalGraph (wave), this.users the users.  Its calls are   *)
(* synchronous; the propagate calls it does not await are given an object  *)
(* as duration, make no step and end before they return.  A user record    *)
(* counts the upgradeTier and downgradeTier calls made for it (changes).   *)
(* thrown is what the last call threw ("Error", "TypeError"), Undefined    *)
(* if it returned.                                                         *)
(***************************************************************************)
TierNames == { "free", "basic", "premium", "enterprise" }

\* this.tiers.get(tier) of a tier that is no key of the table: undefined,
\* written as a record so that it can be compared with the definitions
NoTierConfig ==
    [name |-> Undefined, maxGates |-> NaN, maxFields |-> NaN, features |-> << >>]

\* this.tiers.get(tier)
TierConfig(tier) ==
    CASE tier = "free" ->
           [name |-> "Free Tier", maxGates |-> 12, maxFields |-> 1,
            features |-> << "basic_chart", "daily_guidance" >>]
      [] tier = "basic" ->
           [name |-> "Basic Plan", maxGates |-> 32, maxFields |-> 2,
            features |-> << "basic_chart", "daily_guidance", "transit_alerts",
                            "compatibility" >>]
      [] tier = "premium" ->
           [name |-> "Premium Plan", maxGates |-> 64, maxFields |-> 9,
            features |-> << "all_features", "advanced_analytics",
                            "custom_reports", "priority_support" >>]
      [] tier = "enterprise" ->
           [name |-> "Enterprise", maxGates |-> 64, maxFields |-> 9,
            features |-> << "everything", "custom_integration", "white_label",
                            "dedicated_support" >>]
      [] OTHER -> NoTierConfig

\* a call that throws e before it wrote anything
Throws(e) ==
    /\ thrown' = e
    /\ UNCHANGED << substrateVars, now, waveVars, graceTimers, access,
                    engineVars >>

\* a call that returns: what it leaves alone besides the graph and the users
Returns ==
    /\ thrown' = Undefined
    /\ UNCHANGED << substrateVars, now, waveCalls, graceTimers, access,
                    engineVars >>

\* name.toLowerCase()
ToLowerCase(name) ==
    CASE name = "Free Tier" -> "free tier"
      [] name = "Basic Plan" -> "basic plan"
      [] name = "Premium Plan" -> "premium plan"
      [] name = "Enterprise" -> "enterprise"

FieldNames ==
    << "Mind", "Heart", "Body", "Shadow", "Light", "Neutral", "Sun", "Moon",
       "Mercury" >>

\* the node ids `user_${userId}`, `user_${userId}_gate_${gate}` and
\* `user_${userId}_field_${fieldName}`
UserNodeId(userId) == [user |-> userId, part |-> "user", gate |-> 0, field |-> ""]
GateNodeId(userId, gate) == [user |-> userId, part |-> "gate", gate |-> gate, field |-> ""]
FieldNodeId(userId, fieldName) ==
    [user |-> userId, part |-> "field", gate |-> 0, field |-> fieldName]

\* the group `user_${userId}_nodes`
UserNodesGroup(userId) == Group(userId, "_nodes")

\* g.includes('_users')
IncludesUsers(g) == g.suffix = "_users"

\* node.type: registerNode of the wave graph stores no type
NodeType(node) == Undefined

\* the registrations of the gates and of the fields of the given ranges
GateRegistrations(userId, first, last) ==
    [k \in 1..(last - first + 1) |->
        << GateNodeId(userId, first + k - 1),
           WaveNodeConfig(first + k - 1, Undefined, << UserNodesGroup(userId) >>) >>]

FieldRegistrations(userId, first, last) ==
    [k \in 1..(last - first + 1) |->
        << FieldNodeId(userId, FieldNames[first + k - 1]),
           WaveNodeConfig(NaN, FieldNames[first + k - 1],
                          << UserNodesGroup(userId) >>) >>]

\* this.graph.registerNode for every registration in turn, the ids of the
\* registrations being different: a registered id keeps its place in the
\* Map, the new ones follow in their order
RegisterAll(w, regs) ==
    LET ids == { regs[k][1] : k \in DOMAIN regs }
        ConfigOf(id) == regs[CHOOSE k \in DOMAIN regs : regs[k][1] = id][2]
        new == SelectSeq(regs, LAMBDA r : r[1] \notin WaveIds(w))
    IN [w EXCEPT
          !.nodes = [k \in DOMAIN @ |->
                       IF @[k].id \in ids
                       THEN WaveNodeRecord(@[k].id, ConfigOf(@[k].id))
                       ELSE @[k]]
                    \o [k \in DOMAIN new |-> WaveNodeRecord(new[k][1], new[k][2])],
          !.fieldState = [n \in (DOMAIN @) \cup ids |->
                            IF n \in ids THEN 0 ELSE @[n]]]

\* _createUserNodes: the user's node, then the gates, then the fields
UserRegistrations(userId, tierConfig) ==
    << << UserNodeId(userId),
          WaveNodeConfig(NaN, Undefined,
             << Group("all", "_users"),
                Group(ToLowerCase(tierConfig.name), "_users") >>) >> >>
    \o GateRegistrations(userId, 1, tierConfig.maxGates)
    \o FieldRegistrations(userId, 1, tierConfig.maxFields)

RegistrationIds(regs) == [k \in DOMAIN regs |-> regs[k][1]]

\* the samples of an update of a graph without edges
Crests(w) == [n \in WaveIds(w) |-> One]

\* registerUser(userId, {tier}): config.tier || 'free'; an unknown tier
\* throws before anything is written
RegisterUser(userId, configTier) ==
    LET tier == IF configTier = Undefined THEN "free" ELSE configTier
        tierConfig == TierConfig(tier)
        regs == UserRegistrations(userId, tierConfig)
    IN IF tierConfig = NoTierConfig
       THEN Throws("Error")
       ELSE /\ wave' = RegisterAll(wave, regs)
            /\ users' = [u \in (DOMAIN users) \cup { userId } |->
                           IF u = userId
                           THEN [id |-> userId, tier |-> tier,
                                 tierConfig |-> tierConfig,
                                 nodes |-> RegistrationIds(regs), changes |-> 0]
                           ELSE users[u]]
            /\ Returns

\* upgradeTier: the gates and fields the new tier adds, the user record, the
\* groups of the user's node, and propagate(`user_${userId}`, 1.0, {...});
\* it throws for a user that is not registered and for an unknown tier, and
\* newTierConfig.maxGates > oldTierConfig.maxGates throws a TypeError when
\* the user's tierConfig is undefined
UpgradeTier(userId, newTier) ==
    IF userId \notin DOMAIN users \/ TierConfig(newTier) = NoTierConfig
    THEN Throws("Error")
    ELSE IF users[userId].tierConfig = NoTierConfig
    THEN Throws("TypeError")
    ELSE LET user == users[userId]
             oldTierConfig == user.tierConfig
             newTierConfig == TierConfig(newTier)
             gates == IF newTierConfig.maxGates > oldTierConfig.maxGates
                      THEN GateRegistrations(userId, oldTierConfig.maxGates + 1,
                                             newTierConfig.maxGates)
                      ELSE << >>
             fields == IF newTierConfig.maxFields > oldTierConfig.maxFields
                       THEN FieldRegistrations(userId, oldTierConfig.maxFields + 1,
                                               newTierConfig.maxFields)
                       ELSE << >>
             w1 == RegisterAll(wave, gates \o fields)
             w2 == [w1 EXCEPT !.nodes =
                      [k \in DOMAIN @ |->
                         IF @[k].id = UserNodeId(userId)
                         THEN [@[k] EXCEPT !.groups =
                                 Append(SelectSeq(@, LAMBDA g : ~IncludesUsers(g)),
                                        Group(newTier, "_users"))]
                         ELSE @[k]]]
         IN /\ wave' = PropagateStart(w2, UserNodeId(userId), One, NaN,
                                      Crests(w2)).wave
            /\ users' = [users EXCEPT ![userId] =
                           [user EXCEPT !.tier = newTier,
                                        !.tierConfig = newTierConfig,
                                        !.nodes = @ \o RegistrationIds(gates \o fields),
                                        !.changes = @ + 1]]
            /\ Returns

\* downgradeTier: the gate nodes beyond the new limit are deleted, the user
\* record gets the new tier; for a user that is not registered it returns at
\* once.  this.tiers.get(newTier) is not tested: newTierConfig.maxGates is
\* read only for a node of type 'user_gate'
Downgraded(w, us, userId, newTier) ==
    IF userId \notin DOMAIN us
    THEN [wave |-> w, users |-> us]
    ELSE LET user == us[userId]
             newTierConfig == TierConfig(newTier)
             gatesToRemove ==
                 { nodeId \in SeqSet(user.nodes) :
                     /\ nodeId \in WaveIds(w)
                     /\ NodeType(WaveNode(w, nodeId)) = "user_gate"
                     /\ WaveNode(w, nodeId).gate > newTierConfig.maxGates }
         IN [wave |-> [w EXCEPT !.nodes =
                         SelectSeq(@, LAMBDA n : n.id \notin gatesToRemove)],
             users |-> [us EXCEPT ![userId] =
                          [user EXCEPT
                             !.tier = newTier,
                             !.tierConfig = newTierConfig,
                             !.nodes = SelectSeq(@, LAMBDA n : n \notin gatesToRemove),
                             !.changes = @ + 1]]]

DowngradeTier(userId, newTier) ==
    /\ wave' = Downgraded(wave, users, userId, newTier).wave
    /\ users' = Downgraded(wave, users, userId, newTier).users
    /\ Returns

\* revokeAccess: propagate(`user_${userId}`, 0, {...}), downgradeTier(userId, 'free')
RevokeAccess(userId) ==
    LET w1 == PropagateStart(wave, UserNodeId(userId), 0, NaN, Crests(wave)).wave
    IN /\ wave' = Downgraded(w1, users, userId, "free").wave
       /\ users' = Downgraded(w1, users, userId, "free").users
       /\ Returns

\* broadcastToTier: this.graph.broadcast(`${tierName}_users`, signal, metadata)
BroadcastToTier(tierName, signal) ==
    /\ wave' = BroadcastResult(wave, Group(tierName, "_users"), signal,
                               Crests(wave)).wave
    /\ users' = users
    /\ Returns

(***************************************************************************)
(* Two users: u1 and then u2 are registered, each once and with any tier,  *)
(* and upgraded, downgraded and revoked in any order, with broadcasts to   *)
(* the tiers.                                                              *)
(***************************************************************************)
UserIds == { "u1", "u2" }

InitTiers ==
    /\ SubstrateFresh
    /\ NoWaveUse

\* the upgradeTier and downgradeTier calls made so far
RECURSIVE TierChanges(_)
TierChanges(us) ==
    IF us = { } THEN 0
    ELSE LET u == CHOOSE x \in us : TRUE
         IN users[u].changes + TierChanges(us \ { u })

NextTiers ==
    \/ \E u \in UserIds \ DOMAIN users, t \in TierNames :
          /\ (u = "u2" => "u1" \in DOMAIN users)
          /\ RegisterUser(u, t)
    \/ /\ TierChanges(DOMAIN users) < MaxTierChanges
       /\ \E u \in DOMAIN users, t \in TierNames : UpgradeTier(u, t)
    \/ /\ TierChanges(DOMAIN users) < MaxTierChanges
       /\ \E u \in DOMAIN users, t \in TierNames : DowngradeTier(u, t)
    \/ /\ TierChanges(DOMAIN users) < MaxTierChanges
       /\ \E u \in DOMAIN users : RevokeAccess(u)
    \/ \E t \in TierNames : BroadcastToTier(t, One)

SpecTiers == InitTiers /\ [][NextTiers]_vars

\* array.includes(x)
Includes(array, x) == x \in SeqSet(array)

\* canAccessFeature for a registered user, by the user's tierConfig
CanAccess(tierConfig, featureName) ==
    \/ Includes(tierConfig.features, featureName)
    \/ Includes(tierConfig.features, "all_features")

\* canAccessFeature(userId, featureName): false for a user that is not
\* registered; user.tierConfig.features throws a TypeError when the
\* tierConfig is undefined
CanAccessFeature(userId, featureName) ==
    IF userId \in DOMAIN users /\ users[userId].tierConfig = NoTierConfig
    THEN Throws("TypeError")
    ELSE /\ access' =
               << [userId |-> userId, featureName |-> featureName,
                   result |-> /\ userId \in DOMAIN users
                              /\ CanAccess(users[userId].tierConfig, featureName)] >>
         /\ thrown' = Undefined
         /\ UNCHANGED << substrateVars, now, waveVars, graceTimers, engineVars >>

(***************************************************************************)
(* Two users, registered in order with any tier, and canAccessFeature for  *)
(* either of them and any feature of the tiers table or another name.      *)
(***************************************************************************)
FeatureNames ==
    UNION { SeqSet(TierConfig(t).features) : t \in TierNames } \cup { "beta" }

NextAccess ==
    \/ \E u \in UserIds \ DOMAIN users, t \in TierNames :
          /\ (u = "u2" => "u1" \in DOMAIN users)
          /\ RegisterUser(u, t)
    \/ \E u \in UserIds, f \in FeatureNames : CanAccessFeature(u, f)

SpecAccess == InitTiers /\ [][NextAccess]_vars

(***************************************************************************)
(* Billing.  A failed payment schedules downgradeTier(userId, 'free')      *)
(* after GracePeriod; graceTimers holds these callbacks in scheduling      *)
(* order, each with its due time and with paid, which is not a value of    *)
(* the program: whether handlePayment(userId, amount, true) was called     *)
(* since the callback was scheduled.  The amount goes to the metadata of   *)
(* the propagate call only.                                                *)
(***************************************************************************)
\* 7 * 24 * 60 * 60 * 1000
GracePeriod == 604800000

\* handlePayment(userId, amount, success)
HandlePayment(userId, success) ==
    /\ wave' = PropagateStart(wave, UserNodeId(userId),
                              IF success THEN One ELSE 0, NaN, Crests(wave)).wave
    /\ graceTimers' =
          IF success
          THEN [k \in DOMAIN graceTimers |->
                  IF graceTimers[k].userId = userId
                  THEN [graceTimers[k] EXCEPT !.paid = TRUE]
                  ELSE graceTimers[k]]
          ELSE Append(graceTimers,
                      [userId |-> userId, due |-> now + GracePeriod,
                       paid |-> FALSE])
    /\ thrown' = Undefined
    /\ UNCHANGED << substrateVars, now, waveCalls, users, access, engineVars >>

\* the callback of the oldest grace timer runs, at its due time or later:
\* this.downgradeTier(userId, 'free')
GraceTimerFire ==
    /\ graceTimers # << >>
    /\ LET t == Head(graceTimers)
           d == Downgraded(wave, users, t.userId, "free")
       IN /\ now' = Max(now, t.due)
          /\ wave' = d.wave
          /\ users' = d.users
    /\ graceTimers' = Tail(graceTimers)
    /\ UNCHANGED << substrateVars, waveCalls, thrown, access, engineVars >>

(***************************************************************************)
(* One user u1, registered with any tier; payments that succeed or fail    *)
(* for u1 and for a user that is not registered, upgrades, and the grace   *)
(* timers firing.                                                          *)
(***************************************************************************)
NextBilling ==
    \/ \E t \in TierNames :
          /\ "u1" \notin DOMAIN users
          /\ RegisterUser("u1", t)
    \/ \E u \in UserIds : HandlePayment(u, TRUE)
    \/ /\ Len(graceTimers) < MaxGracePeriods
       /\ now < MaxGracePeriods * GracePeriod
       /\ \E u \in UserIds : HandlePayment(u, FALSE)
    \/ /\ TierChanges(DOMAIN users) < MaxBillingChanges
       /\ \E u \in DOMAIN users, t \in TierNames : UpgradeTier(u, t)
    \/ GraceTimerFire

SpecBilling == InitTiers /\ [][NextBilling]_vars

(***************************************************************************)
(* One user, registered with any tier name, with none, or with a name that *)
(* is no key of the tiers table, and then upgraded and downgraded with any *)
(* of these names.                                                         *)
(***************************************************************************)
UnknownTiers == { "gold" }

TierInputs == TierNames \cup UnknownTiers

NextTierNames ==
    \/ \E t \in TierInputs \cup { Undefined } :
          /\ "u1" \notin DOMAIN users
          /\ RegisterUser("u1", t)
    \/ /\ TierChanges(DOMAIN users) < MaxNameChanges
       /\ \E u \in DOMAIN users, t \in TierInputs : UpgradeTier(u, t)
    \/ /\ TierChanges(DOMAIN users) < MaxNameChanges
       /\ \E u \in DOMAIN users, t \in TierInputs : DowngradeTier(u, t)

SpecTierNames == InitTiers /\ [][NextTierNames]_vars

(***************************************************************************)
(* AIProviderEngine (src/AI_PROVIDERS/ai-provider-engine.js).  A generate  *)
(* call runs up to its await of _generateWithProvider; when the provider's *)
(* promise settles the call goes on, to its return, its throw or the next  *)
(* await.  Other calls on the engine run while a generate call waits.      *)
(* activeProvider is the id of this.activeProvider, costs the              *)
(* totalRequests of each provider, requestHistory the provider of each     *)
(* entry.  A frame keeps options.useFallback, the array the for-of loop    *)
(* runs over (chain) and the position in it (index), and, not values of    *)
(* the program: active, the id of the active provider when generate was    *)
(* called; attempts, the providers given to _generateWithProvider, in      *)
(* order; tracked, the providers given to _trackUsage; result, what the    *)
(* call returned.                                                          *)
(***************************************************************************)
\* this.requestHistory.length > 100
HistoryLimit == 100

\* this.providers after construction
Providers == SeqSet(BuiltInProviders)

\* _trackUsage: stats.totalRequests++, unless the provider has no stats
TrackedCosts(cs, providerId) ==
    IF providerId \in DOMAIN cs THEN [cs EXCEPT ![providerId] = @ + 1] ELSE cs

\* _trackUsage: requestHistory.push, and shift beyond the last 100
TrackedHistory(h, cs, providerId) ==
    IF providerId \notin DOMAIN cs THEN h
    ELSE LET pushed == Append(h, providerId)
         IN IF Len(pushed) > HistoryLimit THEN Tail(pushed) ELSE pushed

GenerateFrame(useFallback, active) ==
    [useFallback |-> useFallback, active |-> active, pc |-> "primary",
     chain |-> << >>, index |-> 0, attempts |-> << active >>,
     tracked |-> << >>, result |-> << >>]

\* the for-of loop from the position after `from`: the first position whose
\* id is not the id of the active provider, 0 if there is none
NextFallback(chain, from, activeId) ==
    LET rest == { k \in DOMAIN chain : k > from /\ chain[k] # activeId }
    IN IF rest = { } THEN 0 ELSE CHOOSE k \in rest : \A j \in rest : k <= j

\* setActiveProvider(providerId) with a registered provider
SetActiveProvider(providerId) ==
    /\ providerId \in Providers
    /\ activeProvider' = providerId
    /\ UNCHANGED << substrateVars, now, waveVars, tierVars, fallbackChain, costs,
                    requestHistory, generateCalls >>

\* setFallbackChain(providerIds)
SetFallbackChain(providerIds) ==
    /\ fallbackChain' = providerIds
    /\ UNCHANGED << substrateVars, now, waveVars, tierVars, activeProvider, costs,
                    requestHistory, generateCalls >>

\* generate(prompt, {useFallback}) up to its first await: with no active
\* provider it throws, else it calls _generateWithProvider with
\* this.activeProvider.id
Generate(useFallback) ==
    /\ generateCalls' =
          Append(generateCalls,
                 IF activeProvider = Null
                 THEN [GenerateFrame(useFallback, Null) EXCEPT
                         !.pc = "threw", !.attempts = << >>]
                 ELSE GenerateFrame(useFallback, activeProvider))
    /\ UNCHANGED << substrateVars, now, waveVars, tierVars, activeProvider,
                    fallbackChain, costs, requestHistory >>

\* the frame after a failed attempt: the loop goes on from position `from`
\* of chain, to the next call of _generateWithProvider or to the throw
AfterFailure(f, chain, from) ==
    LET k == NextFallback(chain, from, activeProvider)
    IN IF k = 0
       THEN [f EXCEPT !.pc = "threw", !.chain = chain, !.index = Len(chain)]
       ELSE [f EXCEPT !.pc = "fallback", !.chain = chain, !.index = k,
                      !.attempts = Append(@, chain[k])]

\* the promise of _generateWithProvider settles for call i: fulfilled (ok)
\* or rejected; a provider that is not registered only rejects
Settle(i, ok) ==
    /\ i \in DOMAIN generateCalls
    /\ generateCalls[i].pc \in { "primary", "fallback" }
    /\ LET f == generateCalls[i]
           called == f.attempts[Len(f.attempts)]
           \* _trackUsage(this.activeProvider.id, result) after the active
           \* provider, _trackUsage(fallbackId, result) in the loop
           usageId == IF f.pc = "primary" THEN activeProvider ELSE called
       IN /\ ok => called \in Providers
          /\ IF ok
             THEN /\ costs' = TrackedCosts(costs, usageId)
                  /\ requestHistory' = TrackedHistory(requestHistory, costs, usageId)
                  /\ generateCalls' =
                        [generateCalls EXCEPT ![i] =
                           [f EXCEPT !.pc = "returned",
                                     !.tracked = IF usageId \in DOMAIN costs
                                                 THEN << usageId >> ELSE << >>,
                                     !.result = << [provider |-> called,
                                                   usedFallback |-> f.pc = "fallback"] >>]]
             ELSE /\ UNCHANGED << costs, requestHistory >>
                  /\ generateCalls' =
                        [generateCalls EXCEPT ![i] =
                           IF f.pc = "primary"
                           THEN IF f.useFallback /\ Len(fallbackChain) > 0
                                THEN AfterFailure(f, fallbackChain, 0)
                                ELSE [f EXCEPT !.pc = "threw"]
                           ELSE AfterFailure(f, f.chain, f.index)]
    /\ UNCHANGED << substrateVars, now, waveVars, tierVars, activeProvider,
                    fallbackChain >>

(***************************************************************************)
(* A new engine: the caller sets the active provider and the chain and     *)
(* calls generate, also while earlier generate calls wait; every attempt   *)
(* succeeds or fails.  "mistral" is in a chain and is not registered.      *)
(***************************************************************************)
ActiveChoices == { "claude", "openai" }

ChainChoices ==
    { << >>, << "claude", "openai" >>, << "openai", "mistral", "gemini" >> }

NextEngine ==
    \/ \E p \in ActiveChoices : SetActiveProvider(p)
    \/ \E c \in ChainChoices : SetFallbackChain(c)
    \/ /\ Len(generateCalls) < MaxGenerateCalls
       /\ \E useFallback \in BOOLEAN : Generate(useFallback)
    \/ \E i \in DOMAIN generateCalls, ok \in BOOLEAN : Settle(i, ok)

SpecEngine == InitTiers /\ [][NextEngine]_vars

(***************************************************************************)
(* What a call returns and what the graph lets it reach.                   *)
(***************************************************************************)
\* activatedNodes: results.map(r => r.nodeId)
ActivatedNodes(f) == [k \in DOMAIN f.results |-> f.results[k].nodeId]

\* the signal each activation of the call added, in order
Deltas(f) == [k \in DOMAIN f.processed |-> f.processed[k].signal]

OutTargets(n, md) ==
    { e.to : e \in { v \in SeqSet(FindOutgoingEdges(edges, n)) :
                        EdgeFires(v, [metadata |-> md]) } }

RECURSIVE ReachableFrom(_, _)
ReachableFrom(S, md) ==
    LET T == S \cup UNION { OutTargets(n, md) : n \in S }
    IN IF T = S THEN S ELSE ReachableFrom(T, md)

AllHandlersSync == \A n \in DOMAIN nodes : nodes[n].handlers # "async"

NoDelays == \A i \in DOMAIN edges : edges[i].delay = 0

\* C1: when a propagate call on a graph of synchronous handlers and undelayed
\* edges resolves, every node reachable from its source is in activatedNodes;
\* on the fresh chain A -0.8-> B -0.5-> C, propagate('A', 1.0, {}) returns
\* [A, B, C] and leaves the activations 1.0, 0.8 and 0.4.
C1_WholeChainDelivered ==
    /\ \A i \in DOMAIN calls :
          (calls[i].pc = "done" /\ AllHandlersSync /\ NoDelays)
          => ReachableFrom({ calls[i].source }, calls[i].metadata)
                \subseteq SeqSet(ActivatedNodes(calls[i]))
    /\ ( /\ edges = ChainGraph.edges
         /\ Len(calls) = 1
         /\ calls[1].pc = "done"
         /\ calls[1].source = "A"
         /\ calls[1].signal = One )
       => /\ ActivatedNodes(calls[1]) = << "A", "B", "C" >>
          /\ nodes["A"].activation = 1000
          /\ nodes["B"].activation = 800
          /\ nodes["C"].activation = 400

\* C2: within one propagate call _activateNode is called at most once per
\* node id, and activatedNodes has no duplicate.
C2_OncePerNode ==
    \A i \in DOMAIN calls :
        /\ \A j, k \in DOMAIN calls[i].processed :
              j # k => calls[i].processed[j].to # calls[i].processed[k].to
        /\ \A j, k \in DOMAIN calls[i].results :
              j # k => calls[i].results[j].nodeId # calls[i].results[k].nodeId

\* a call met a second message for a node it had activated and dropped it
C2_Witness ==
    \E i \in DOMAIN calls :
        /\ calls[i].pc = "done"
        /\ calls[i].dequeued > Len(calls[i].processed)
        /\ Len(calls[i].processed) >= 2

\* C4: a call processes only messages carrying its own propagationId, its
\* first activated node is its source, and every node it lists is reachable
\* from its source.
C4_RunIsolation ==
    \A i \in DOMAIN calls :
        /\ \A k \in DOMAIN calls[i].processed :
              calls[i].processed[k].id = calls[i].id
        /\ calls[i].results # << >> => calls[i].results[1].nodeId = calls[i].source
        /\ SeqSet(ActivatedNodes(calls[i]))
              \subseteq ReachableFrom({ calls[i].source }, calls[i].metadata)

\* C5: two resolved calls with the same arguments, made with the same nodes
\* and activations, return the same activatedNodes and add the same signals.
C5_Determinism ==
    \A i, j \in DOMAIN calls :
        ( /\ i < j
          /\ calls[i].pc = "done" /\ calls[j].pc = "done"
          /\ calls[i].source = calls[j].source
          /\ calls[i].signal = calls[j].signal
          /\ calls[i].metadata = calls[j].metadata
          /\ calls[i].before = calls[j].before )
        => /\ ActivatedNodes(calls[i]) = ActivatedNodes(calls[j])
           /\ Deltas(calls[i]) = Deltas(calls[j])

\* C6: every node's activation is within [0, 1].
C6_ActivationBound ==
    \A n \in DOMAIN nodes :
        0 <= nodes[n].activation /\ nodes[n].activation <= One

\* C7: every registered edge joins two registered nodes.
C7_NoDanglingEdges ==
    \A i \in DOMAIN edges :
        edges[i].from \in DOMAIN nodes /\ edges[i].to \in DOMAIN nodes

\* C8: a finished broadcast has one result per member, and in the run of
\* member m the node m was activated with the broadcast's signal and with
\* metadata holding broadcast: group.
C8_BroadcastCompleteness ==
    (bcast.state = "done" /\ bcast.group \in DOMAIN nodeGroups)
    => /\ Len(bcast.results) = Len(nodeGroups[bcast.group])
       /\ \A k \in DOMAIN bcast.results :
             LET f == calls[bcast.results[k]]
                 m == nodeGroups[bcast.group][k]
             IN \E j \in DOMAIN f.processed :
                   /\ f.processed[j].to = m
                   /\ f.processed[j].signal = bcast.signal
                   /\ MetaGet(f.processed[j].metadata, "broadcast") = bcast.group

EdgeById(id) == edges[CHOOSE i \in DOMAIN edges : edges[i].id = id]

\* C10: the signal of every message scheduled through an edge is the signal
\* processed at the edge's source times the strength the edge was registered
\* with; an edge registered with strength 0 carries signal 0.
C10_StrengthScalesSignal ==
    \A k \in DOMAIN timers :
        LET t == timers[k].msg
            e == EdgeById(t.metadata["edge"])
            f == calls[t.id]
        IN (t.from \in DOMAIN nodes /\ t.to \in DOMAIN nodes)
       => \E j \in DOMAIN f.processed :
              /\ f.processed[j].to = t.from
              /\ t.signal = Mul(f.processed[j].signal, e.given)

\* the directions in which the edges can be crossed
EdgeViews ==
    SumSeq([i \in DOMAIN edges |-> IF edges[i].bidirectional THEN 2 ELSE 1])

\* C3: every propagate call returns, and the number of messages a call takes
\* off the queue is at most the number of messages the calls made so far can
\* have put there: one per call and one per call and edge direction.
C3_Terminates ==
    /\ \A i \in 1..MaxFairCalls :
          (Len(calls) >= i) ~> (Len(calls) >= i /\ Finished(calls[i]))
    /\ [](\A i \in DOMAIN calls :
            calls[i].dequeued <= Len(calls) * (1 + EdgeViews))

\* on a cycle of strength 1.0 a call went round, met its own start and returned
C3_Witness ==
    /\ edges \in { CycleGraph.edges, Cycle3Graph.edges }
    /\ \E i \in DOMAIN calls :
          /\ calls[i].pc = "done"
          /\ Len(calls[i].results) >= 2
          /\ calls[i].dequeued > Len(calls[i].results)

\* the conditions of an edge hold on a message (written out from the claim)
ConditionsHold(e, msg) ==
    CASE e.conditions.kind = "null" -> TRUE
      [] e.conditions.kind = "function" ->
            "paymentValid" \in DOMAIN msg.metadata
            /\ msg.metadata["paymentValid"] = "true"
      [] OTHER ->
            \A k \in DOMAIN e.conditions.obj :
                k \in DOMAIN msg.metadata
                /\ msg.metadata[k] = e.conditions.obj[k]

\* the timers set by the step from the current state to the next
NewTimers == { timers'[k] : k \in (Len(timers) + 1)..Len(timers') }

ScheduledThrough(e) ==
    \E t \in NewTimers :
        /\ t.msg.from = e.from
        /\ t.msg.to = e.to
        /\ t.msg.metadata["edge"] = e.id

\* C9: when a call has processed a message at a node, a message is scheduled
\* through an outgoing edge of the node exactly if the edge's conditions hold
\* on the processed message (in object form: every key of the conditions has
\* its value in the metadata); and every message for premium_features through
\* activation_unlocks_premium has paymentValid true in its metadata.
C9_ConditionGating ==
    /\ [][\A i \in DOMAIN calls :
            Len(calls'[i].results) = Len(calls[i].results) + 1
            => \A e \in SeqSet(FindOutgoingEdges(edges, calls[i].cur.to)) :
                  ScheduledThrough(e) <=> ConditionsHold(e, calls[i].cur)]_vars
    /\ [](\A k \in DOMAIN timers :
            timers[k].msg.metadata["edge"] = NamedEdge("activation_unlocks_premium")
            => MetaGet(timers[k].msg.metadata, "paymentValid") = "true")

\* a message without paymentValid true was processed at subscription_active
\* and nothing was scheduled for premium_features
C9_Witness ==
    \E i \in DOMAIN calls :
        /\ calls[i].pc = "done"
        /\ \E k \in DOMAIN calls[i].processed :
              /\ calls[i].processed[k].to = "subscription_active"
              /\ MetaGet(calls[i].processed[k].metadata, "paymentValid") # "true"
        /\ \A k \in DOMAIN timers : timers[k].msg.to # "premium_features"
        /\ \A k \in DOMAIN messageQueue : messageQueue[k].to # "premium_features"

(***************************************************************************)
(* Self-evolution and the graph.                                           *)
(***************************************************************************)
\* a step of propagate, broadcast, _learnPattern or of a timer callback
RunStep ==
    \/ calls' # calls
    \/ bcast' # bcast
    \/ messageQueue' # messageQueue
    \/ timers' # timers
    \/ observedPatterns' # observedPatterns

\* a step of approveEvolution that commits a proposal
ApprovalStep ==
    /\ Len(evolutionHistory') = Len(evolutionHistory) + 1
    /\ Len(proposedEdges') = Len(proposedEdges) - 1

\* a step of registerCausalEdge called by the caller
RegistrationStep ==
    /\ ~RunStep
    /\ UNCHANGED << nodes, nodeGroups, learnVars >>

\* C11: propagate, broadcast, _learnPattern and the timer callbacks leave the
\* set of nodes, the edges and the groups as they are; the edges change only
\* in registerCausalEdge and approveEvolution; every evolved edge was added
\* by an approveEvolution call.
C11_LearningLeavesGraph ==
    /\ [][RunStep => /\ DOMAIN nodes' = DOMAIN nodes
                     /\ edges' = edges
                     /\ nodeGroups' = nodeGroups]_vars
    /\ [][edges' # edges => (ApprovalStep \/ RegistrationStep)]_vars
    /\ [](\A i \in DOMAIN edges :
            edges[i].id[1] = "evolved"
            => edges[i].id \in SeqSet(evolutionHistory))

\* proposals are pending after runs that met an unregistered id, and the
\* graph is the one that was registered
C11_Witness ==
    /\ GetProposedEvolutions # << >>
    /\ evolutionHistory = << >>
    /\ \E i \in DOMAIN calls : calls[i].pc = "threw"
    /\ bcast.state = "done"
    /\ DOMAIN nodes = DOMAIN EvolveGraph.nodes
    /\ edges = EvolveGraph.edges
    /\ nodeGroups = EvolveGraph.nodeGroups

\* C12: approveEvolution(i) with a valid index removes exactly proposal i,
\* keeps every edge there was and adds one new edge with the proposal's from,
\* to and strength, so that the number of edges grows by one at every
\* approval, and appends one evolutionHistory entry; with an invalid index it
\* changes nothing.
C12_ApprovalCommits ==
    [][\A edgeIndex \in 0..1 :
          ApproveEvolution(edgeIndex) =>
             IF edgeIndex + 1 \in DOMAIN proposedEdges
             THEN LET p == proposedEdges[edgeIndex + 1]
                  IN /\ proposedEdges' =
                           [j \in 1..(Len(proposedEdges) - 1) |->
                               IF j < edgeIndex + 1 THEN proposedEdges[j]
                               ELSE proposedEdges[j + 1]]
                     /\ Len(edges') = Len(edges) + 1
                     /\ \A j \in DOMAIN edges : edges'[j] = edges[j]
                     /\ LET e == edges'[Len(edges')]
                        IN /\ e.from = p.from
                           /\ e.to = p.to
                           /\ e.strength = p.strength
                     /\ Len(evolutionHistory') = Len(evolutionHistory) + 1
             ELSE UNCHANGED vars]_vars

\* the observations of the pair (a, b): the strengths recorded for b in the
\* runs started at a
Observations(a, b) ==
    IF << a, b >> \in DOMAIN observedPatterns
    THEN observedPatterns[<< a, b >>] ELSE << >>

Proposed(a, b) ==
    \E k \in DOMAIN GetProposedEvolutions :
        /\ GetProposedEvolutions[k].from = a
        /\ GetProposedEvolutions[k].to = b

\* C13: a pair (a, b) without an edge from a to b that has been observed in
\* five runs started at a, each with a strength above 0.3, is among the
\* proposals getProposedEvolutions returns; a pair observed in fewer than
\* five runs is not.
C13_ProposalThreshold ==
    \A a \in DOMAIN nodes, b \in DOMAIN nodes :
        LET obs == Observations(a, b)
        IN /\ ( /\ Len(obs) >= 5
                /\ \A k \in DOMAIN obs : obs[k] > 300
                /\ ~(\E i \in DOMAIN edges :
                        edges[i].from = a /\ edges[i].to = b) )
              => Proposed(a, b)
           /\ Len(obs) < 5 => ~Proposed(a, b)

\* C14: no proposal returned by getProposedEvolutions has the from and to of
\* a registered edge.
C14_ProposalsNotEdges ==
    \A k \in DOMAIN GetProposedEvolutions :
        ~(\E i \in DOMAIN edges :
             /\ edges[i].from = GetProposedEvolutions[k].from
             /\ edges[i].to = GetProposedEvolutions[k].to)

\* C15: every proposal's confidence is min(1, count / 10), count the number
\* of observations of its pair when it was made, and lies within [0, 1].
C15_ConfidenceBound ==
    \A k \in DOMAIN proposedEdges :
        /\ proposedEdges[k].confidence
              = Min(One, (proposedEdges[k].count * One) \div 10)
        /\ 0 <= proposedEdges[k].confidence
        /\ proposedEdges[k].confidence <= One

(***************************************************************************)
(* Failures.                                                               *)
(***************************************************************************)
HasFailingHandler(n) ==
    n \in DOMAIN nodes /\ nodes[n].handlers \in { "throws", "rejects" }

\* the messages in the queue that call f would not skip
Unvisited(f) ==
    { k \in DOMAIN messageQueue : << messageQueue[k].to, f.id >> \notin f.visited }

MetUnknown(f) ==
    \E k \in DOMAIN f.processed : f.processed[k].to \notin DOMAIN nodes

\* C17: a propagate call that meets an unregistered id rejects, and when it
\* has ended every node's activation is what it was when the call was made
\* and observedPatterns and proposedEdges are what they were.
C17_UnknownIdRejected ==
    [][\A i \in DOMAIN calls :
          ( /\ ~Finished(calls[i])
            /\ Finished(calls'[i])
            /\ MetUnknown(calls'[i]) )
          => /\ calls'[i].pc = "threw"
             /\ \A n \in DOMAIN nodes :
                   nodes'[n].activation = calls[i].before[n].activation
             /\ observedPatterns' = observedPatterns
             /\ proposedEdges' = proposedEdges]_vars

\* C18: registerNode for an id that is registered already leaves the node
\* and the groups as they were.
C18_DuplicateRejected ==
    [][\A id \in ApiNodeIds, cfg \in RegisterConfigs :
          (id \in DOMAIN nodes /\ RegisterNode(id, cfg))
          => /\ nodes'[id] = nodes[id]
             /\ nodeGroups' = nodeGroups]_vars

\* C19: after the one propagate call every node its source reaches is
\* eventually activated, and the timers and the queue eventually are and stay
\* empty: every message scheduled is taken off the queue.
C19_EventualDelivery ==
    /\ (calls # << >>)
          ~> ( /\ calls # << >>
               /\ ReachableFrom({ calls[1].source }, calls[1].metadata)
                     \subseteq { calls[1].processed[k].to :
                                    k \in DOMAIN calls[1].processed } )
    /\ (calls # << >>) ~> [](timers = << >> /\ messageQueue = << >>)

\* one of the two calls was made while the other had not returned
Overlapped(i, j) ==
    i # j /\ (j \in calls[i].concurrent \/ i \in calls[j].concurrent)

\* C20: of two calls that overlap neither activates a node for a message of
\* the other, and each that returns has activated its source for its own
\* initial message.
C20_OverlapIsolation ==
    \A i \in DOMAIN calls :
        /\ \A k \in DOMAIN calls[i].processed :
              ~Overlapped(i, calls[i].processed[k].id)
        /\ ( /\ calls[i].pc = "done"
             /\ \E j \in DOMAIN calls : Overlapped(i, j) )
           => \E k \in DOMAIN calls[i].processed :
                 /\ calls[i].processed[k].id = i
                 /\ calls[i].processed[k].from = "null"
                 /\ calls[i].processed[k].to = calls[i].source

(***************************************************************************)
(* Outgoing edges.                                                         *)
(***************************************************************************)
\* the number of entries the edges before edge i contribute to the outgoing
\* edges of n
EntriesBefore(i, n) ==
    Cardinality({ j \in 1..(i - 1) : edges[j].from = n })
    + Cardinality({ j \in 1..(i - 1) : edges[j].bidirectional /\ edges[j].to = n })

\* C21: the outgoing edges of n are, in the order of registration, every
\* edge with from = n and, for every bidirectional edge with to = n, the edge
\* with from and to exchanged, and nothing else; a message is scheduled
\* through an edge from its from-node to its to-node, or the other way if the
\* edge is bidirectional, and never the other way if it is not.
C21_OutgoingEdges ==
    /\ [](\A n \in DOMAIN nodes :
            LET out == FindOutgoingEdges(edges, n)
            IN /\ Len(out) = EntriesBefore(Len(edges) + 1, n)
               /\ \A i \in DOMAIN edges :
                     LET k == EntriesBefore(i, n)
                         own == edges[i].from = n
                         back == edges[i].bidirectional /\ edges[i].to = n
                     IN /\ own => out[k + 1] = edges[i]
                        /\ back =>
                              LET v == out[k + 1 + (IF own THEN 1 ELSE 0)]
                              IN /\ v.id = edges[i].id
                                 /\ v.from = n
                                 /\ v.to = edges[i].from
                                 /\ v.strength = edges[i].strength
                                 /\ v.delay = edges[i].delay)
    /\ [][\A t \in NewTimers :
            LET e == EdgeById(t.msg.metadata["edge"])
            IN \/ (e.from = t.msg.from /\ e.to = t.msg.to)
               \/ (e.bidirectional /\ e.to = t.msg.from /\ e.from = t.msg.to)]_vars

\* a call activated A for a message that crossed the bidirectional edge from
\* A to B backwards, and B for one that crossed it forwards
C21_Witness ==
    /\ edges = BidirGraph.edges
    /\ \E i, j \in DOMAIN calls :
          /\ \E k \in DOMAIN calls[i].processed :
                /\ calls[i].processed[k].from = "B"
                /\ calls[i].processed[k].to = "A"
          /\ \E k \in DOMAIN calls[j].processed :
                /\ calls[j].processed[k].from = "A"
                /\ calls[j].processed[k].to = "B"

(***************************************************************************)
(* Groups.                                                                 *)
(***************************************************************************)
\* broadcast: the nodes a broadcast to the group calls propagate for
BroadcastTargets(gs, groupName) ==
    IF groupName \in DOMAIN gs THEN SeqSet(gs[groupName]) ELSE { }

GroupNames == UNION { SeqSet(cfg.groups) : cfg \in RegisterConfigs }

\* C22: a broadcast to a group targets exactly the registered nodes whose
\* latest registration listed the group: after registerNode(id, config) the
\* node is targeted by the groups of config.groups and by no other, the
\* membership of the other nodes is as before, no other step changes the
\* groups, and every target is a registered node.
C22_GroupsMatchRegistration ==
    /\ [][\A id \in ApiNodeIds, cfg \in RegisterConfigs :
            RegisterNode(id, cfg)
            => \A g \in GroupNames :
                  /\ (id \in BroadcastTargets(nodeGroups', g))
                        <=> (g \in SeqSet(cfg.groups))
                  /\ BroadcastTargets(nodeGroups', g) \ {id}
                        = BroadcastTargets(nodeGroups, g) \ {id}]_vars
    /\ [][(~ \E id \in ApiNodeIds, cfg \in RegisterConfigs : RegisterNode(id, cfg))
            => nodeGroups' = nodeGroups]_vars
    /\ [](\A g \in GroupNames : BroadcastTargets(nodeGroups, g) \subseteq DOMAIN nodes)

(***************************************************************************)
(* What is proposed.                                                       *)
(***************************************************************************)
\* C23: every proposal names two different nodes, and its to-node is one
\* that activating its from-node reaches through the edges; propagating from
\* a node without outgoing edges therefore creates no proposal.
C23_ProposalsBetweenDifferentNodes ==
    \A k \in DOMAIN proposedEdges :
        /\ proposedEdges[k].from # proposedEdges[k].to
        /\ proposedEdges[k].to
              \in ReachableFrom({ proposedEdges[k].from }, EmptyMeta)

\* C24: proposedEdges holds at most one proposal for each ordered pair of
\* nodes, so it is no longer than the number of ordered pairs.
C24_OneProposalPerPair ==
    /\ \A j, k \in DOMAIN proposedEdges :
          ( /\ proposedEdges[j].from = proposedEdges[k].from
            /\ proposedEdges[j].to = proposedEdges[k].to ) => j = k
    /\ Len(proposedEdges) <= Cardinality(DOMAIN nodes) * Cardinality(DOMAIN nodes)

(***************************************************************************)
(* Calls with signals of either sign and of any size on a registered       *)
(* graph, with registration of a registered id between them.               *)
(***************************************************************************)
LevelSignals == { 0 - One, One \div 2, One }

NextLevels ==
    \/ /\ Len(calls) < MaxLevelCalls
       /\ \E s \in DOMAIN nodes, x \in LevelSignals : Propagate(s, x, EmptyMeta)
    \/ \E g \in DOMAIN nodeGroups, x \in LevelSignals :
          /\ Len(calls) + Len(nodeGroups[g]) <= MaxLevelCalls
          /\ Broadcast(g, x, EmptyMeta)
    \/ RegisterNode("B", NodeConfig("sync", << "g" >>))
    \/ BroadcastNext
    \/ \E i \in DOMAIN calls : Resume(i)
    \/ \E i \in DOMAIN calls : HandlerResolve(i)
    \/ TimerFire

SpecLevels == Registered(CycleGraph) /\ [][NextLevels]_vars

(***************************************************************************)
(* Activation levels.                                                      *)
(***************************************************************************)
\* the messages given to _activateNode in this step
NewlyProcessed ==
    { calls'[i].processed[Len(calls'[i].processed)] :
        i \in { j \in DOMAIN calls' :
                  Len(calls'[j].processed)
                     > (IF j \in DOMAIN calls THEN Len(calls[j].processed) ELSE 0) } }

\* C25: in a step that does not register the node, a node that is given no
\* message keeps its activation; a node given a message with a signal of at
\* least 0 does not get a lower activation, and if its activation was 1.0
\* it is 1.0 afterwards.
C25_ActivationMonotone ==
    [][\A n \in DOMAIN nodes :
          (~ \E cfg \in ApiNodeConfigs \cup RegisterConfigs : RegisterNode(n, cfg))
          => LET ms == { m \in NewlyProcessed : m.to = n }
             IN /\ ms = { } => nodes'[n].activation = nodes[n].activation
                /\ (\A m \in ms : m.signal >= 0)
                      => /\ nodes'[n].activation >= nodes[n].activation
                         /\ nodes[n].activation = One
                               => nodes'[n].activation = One]_vars

\* a call found a node at 1.0, gave it a message with a positive signal, and
\* the node is at 1.0
C25_Witness ==
    \E i \in DOMAIN calls, n \in DOMAIN nodes :
        /\ n \in DOMAIN calls[i].before
        /\ calls[i].before[n].activation = One
        /\ nodes[n].activation = One
        /\ \E k \in DOMAIN calls[i].processed :
              calls[i].processed[k].to = n /\ calls[i].processed[k].signal > 0

(***************************************************************************)
(* The wave graph.                                                         *)
(***************************************************************************)
\* C26: registerResonanceEdge with a from or a to that is not a registered
\* node leaves nodes, edges and fieldState as they were, and every edge of
\* the wave graph joins two registered nodes.
C26_WaveEdgesValidated ==
    /\ [][\A n \in 1..MaxWaveEdges, cfg \in WaveEdgeConfigs :
            ( /\ (cfg.from \notin WaveIds(wave) \/ cfg.to \notin WaveIds(wave))
              /\ RegisterResonanceEdge(WaveUserEdge(n), cfg) )
            => /\ wave'.nodes = wave.nodes
               /\ wave'.edges = wave.edges
               /\ wave'.fieldState = wave.fieldState]_vars
    /\ [](\A k \in DOMAIN wave.edges :
            /\ wave.edges[k].from \in WaveIds(wave)
            /\ wave.edges[k].to \in WaveIds(wave))

\* a registration was turned down, and the graph has an edge that was
\* registered by an approval
C26_Witness ==
    /\ \E i \in DOMAIN waveCalls : waveCalls[i].kind = "edge"
    /\ \E k \in DOMAIN wave.edges : wave.edges[k].id[1] = "evolved_resonance"

ListedPosition(w, n) ==
    CHOOSE p \in DOMAIN w.proposedResonances :
        /\ w.proposedResonances[p].resonance > MinListedResonance
        /\ Cardinality({ q \in 1..p :
              w.proposedResonances[q].resonance > MinListedResonance }) = n

\* C28: for an index of the list getProposedResonances returns,
\* approveResonance(index) registers an edge between the from and the to of
\* the proposal the list holds at that index, and removes that proposal and
\* no other from the pending ones.
C28_ApprovesListedProposal ==
    [][\A index \in 0..MaxWaveIndex :
          ( /\ index + 1 \in DOMAIN GetProposedResonances(wave)
            /\ ApproveResonance(index) )
          => LET listed == GetProposedResonances(wave)[index + 1]
             IN /\ \E k \in DOMAIN wave'.edges :
                      /\ wave'.edges[k].id = EvolvedResonance(now)
                      /\ wave'.edges[k].from = listed.from
                      /\ wave'.edges[k].to = listed.to
                /\ wave'.proposedResonances
                      = Splice(wave.proposedResonances,
                               ListedPosition(wave, index + 1) - 1)]_vars

(***************************************************************************)
(* The tiers.                                                              *)
(***************************************************************************)
\* the nodes broadcastToTier(tierName, ...) sets the amplitude of and returns
TierTargets(tierName) == SeqSet(GroupMembers(wave, Group(tierName, "_users")))

\* C29: a broadcast to the tier of a user targets the user's node.
C29_TierBroadcastReachesMembers ==
    \A u \in DOMAIN users : UserNodeId(u) \in TierTargets(users[u].tier)

\* C30: a broadcast to a tier targets the node of no user of another tier.
C30_TierBroadcastReachesOnlyMembers ==
    \A t \in TierNames, u \in DOMAIN users :
        UserNodeId(u) \in TierTargets(t) => users[u].tier = t

(***************************************************************************)
(* The tiers: limits, the user records, the group of all users.            *)
(***************************************************************************)
\* the gate nodes and the field nodes of a user that are in the graph
UserGates(w, userId) ==
    { n \in WaveIds(w) : n.user = userId /\ n.part = "gate" }

UserFields(w, userId) ==
    { n \in WaveIds(w) : n.user = userId /\ n.part = "field" }

\* C31: for every user the graph holds at most maxGates gate nodes and at
\* most maxFields field nodes of the user's current tier, and after
\* downgradeTier(u, t) no gate node of u with a gate number above
\* maxGates(t) is left in the graph or in user.nodes.
C31_TierLimits ==
    /\ [](\A u \in DOMAIN users :
            /\ Cardinality(UserGates(wave, u)) <= users[u].tierConfig.maxGates
            /\ Cardinality(UserFields(wave, u)) <= users[u].tierConfig.maxFields)
    /\ [][\A u \in DOMAIN users, t \in TierNames :
            DowngradeTier(u, t)
            => \A n \in UserGates(wave', u)
                          \cup { m \in SeqSet(users'[u].nodes) : m.part = "gate" } :
                  n.gate <= TierConfig(t).maxGates]_vars

\* C33: the node of every registered user is in the group 'all_users', the
\* nodes a broadcast to 'all_users' targets.
C33_EveryUserInAllUsers ==
    \A u \in DOMAIN users :
        UserNodeId(u) \in SeqSet(GroupMembers(wave, Group("all", "_users")))

\* C32: every user record has a tier that is a key of the tiers table and
\* the tierConfig of that tier; a registerUser, upgradeTier or downgradeTier
\* call that names an unknown tier throws and leaves the users and the graph
\* as they were.
C32_UserTierValid ==
    /\ [](\A u \in DOMAIN users :
            /\ users[u].tier \in TierNames
            /\ users[u].tierConfig = TierConfig(users[u].tier))
    /\ [][\A t \in UnknownTiers :
            ( \/ \E u \in UserIds : RegisterUser(u, t)
              \/ \E u \in DOMAIN users : UpgradeTier(u, t)
              \/ \E u \in DOMAIN users : DowngradeTier(u, t) )
            => /\ thrown' # Undefined
               /\ users' = users
               /\ wave' = wave]_vars

(***************************************************************************)
(* Feature access.                                                         *)
(***************************************************************************)
\* free < basic < premium < enterprise
TierRank(tier) ==
    CASE tier = "free" -> 0
      [] tier = "basic" -> 1
      [] tier = "premium" -> 2
      [] tier = "enterprise" -> 3

\* C34: for every feature name, if canAccessFeature is true for a user of
\* some tier it is true for every user of a higher tier, and it is true for
\* every premium and every enterprise user.
C34_FeatureAccessMonotone ==
    \A f \in FeatureNames :
        /\ \A u \in DOMAIN users, v \in DOMAIN users :
              ( /\ TierRank(users[u].tier) <= TierRank(users[v].tier)
                /\ CanAccess(users[u].tierConfig, f) )
              => CanAccess(users[v].tierConfig, f)
        /\ \A u \in DOMAIN users :
              users[u].tier \in { "premium", "enterprise" }
              => CanAccess(users[u].tierConfig, f)

(***************************************************************************)
(* The grace period.                                                       *)
(***************************************************************************)
\* C35: when a grace timer fires for a user for whom a payment succeeded
\* since the failed one, the user keeps the tier: the timer downgrades a
\* user only if no payment succeeded since the payment that failed.
C35_GraceCancelledByPayment ==
    [][GraceTimerFire
         => LET t == Head(graceTimers)
            IN (t.userId \in DOMAIN users /\ t.paid)
                  => users'[t.userId].tier = users[t.userId].tier]_vars

(***************************************************************************)
(* The order of the providers in generate.                                 *)
(***************************************************************************)
\* the chain without the provider that was active when generate was called
OtherProviders(f) == SelectSeq(f.chain, LAMBDA p : p # f.active)

\* C36: a generate call made with an active provider calls that provider
\* first and once; it calls another provider only with useFallback and
\* after a failure, and then the providers of the chain other than the
\* active one, in chain order; a call that returned returns the last
\* provider it called, with usedFallback exactly if that was not the
\* first, and tracked the usage of that provider only; a call that threw,
\* or has not returned, tracked nothing, and with useFallback it threw only
\* after every other provider of the chain failed; the counters count
\* the calls that tracked the provider.
C36_FallbackOrder ==
    /\ \A i \in DOMAIN generateCalls :
          LET f == generateCalls[i]
              n == Len(f.attempts)
          IN f.active # Null =>
                /\ f.attempts[1] = f.active
                /\ \A k \in 2..n :
                      /\ f.useFallback
                      /\ k - 1 <= Len(OtherProviders(f))
                      /\ f.attempts[k] = OtherProviders(f)[k - 1]
                /\ f.pc = "returned" =>
                      /\ f.result[1].provider = f.attempts[n]
                      /\ f.result[1].usedFallback = (n > 1)
                      /\ f.tracked = << f.attempts[n] >>
                /\ f.pc # "returned" => f.tracked = << >>
                /\ (f.pc = "threw" /\ f.useFallback) =>
                      n = 1 + Len(OtherProviders(f))
    /\ \A p \in DOMAIN costs :
          costs[p] = Cardinality({ i \in DOMAIN generateCalls :
                                     generateCalls[i].tracked = << p >> })

====
